---- MODULE Spec2Model ----
(***************************************************************************)
(* A model of the Ottawa-Data-Model import library:                        *)
(*   - wbe_odm/odm_mappers/base_mapper.py : the variable-type registry and *)
(*     parse_types, the per-column type cast;                              *)
(*   - odm/odm.py : the Odm aggregate (ten DataFrame attributes), its      *)
(*     merge primitive add_to_attr, the reshaping helpers (__widen,        *)
(*     __parse_sample), get_geoJSON and save_to_db.                        *)
(*                                                                         *)
(* Python values are records [t |-> <python type>, v |-> <str(value)>], so *)
(* that str() and astype(str) are computed and not assumed.  A DataFrame   *)
(* is a record [cols, index, rows]: the column labels in order, the row    *)
(* labels in order (pandas keeps them through append and drop_duplicates), *)
(* and the rows, each a function from column label to value.               *)
(***************************************************************************)
EXTENDS Integers, Sequences, FiniteSets, TLC

VARIABLES
    series,     \* parse_types: the column handed to the call
    cast,       \* parse_types: what the call produced
    odm,        \* the aggregate: attribute name -> DataFrame or None
    call,       \* the last operation run on the aggregate, with its arguments
    out,        \* the value the last operation returned (or that it raised)
    target,     \* save_to_db: the rows of the target table of the engine
    staging,    \* save_to_db: the rows of myTempTable, or absent
    saved,      \* save_to_db: the DataFrame handed to the last call
    run         \* runscript.py: where the pipeline stands, and what it has done

vars == <<series, cast, odm, call, out, target, staging, saved, run>>

----------------------------------------------------------------------------
(* Bounds of the model. *)

\* longest column handed to parse_types
MaxSeries == 2
\* number of add_to_attr calls in one run of the aggregate
MaxMerges == 2
\* number of save_to_db calls in one run against the engine
MaxSaves == 2

----------------------------------------------------------------------------
(* Python strings.  TLC gives Len, SubSeq and \o on strings. *)

Min(a, b) == IF a <= b THEN a ELSE b

Char(s, i) == SubSeq(s, i, i)

\* s[i-1 : j] of Python: never out of range
Slice(s, i, j) == SubSeq(s, i, Min(j, Len(s)))

\* sub in s
Contains(s, sub) ==
    \E i \in 1..(Len(s) - Len(sub) + 1) : SubSeq(s, i, i + Len(sub) - 1) = sub

\* s.startswith(p)
StartsWith(s, p) == Len(p) <= Len(s) /\ SubSeq(s, 1, Len(p)) = p

\* s.endswith(p)
EndsWith(s, p) == Len(p) <= Len(s) /\ SubSeq(s, Len(s) - Len(p) + 1, Len(s)) = p

UpperCase == <<"A","B","C","D","E","F","G","H","I","J","K","L","M",
               "N","O","P","Q","R","S","T","U","V","W","X","Y","Z">>
LowerCase == <<"a","b","c","d","e","f","g","h","i","j","k","l","m",
               "n","o","p","q","r","s","t","u","v","w","x","y","z">>

LowerChar(c) ==
    IF \E k \in DOMAIN UpperCase : UpperCase[k] = c
    THEN LowerCase[CHOOSE k \in DOMAIN UpperCase : UpperCase[k] = c]
    ELSE c

\* s.lower()
RECURSIVE Lower(_)
Lower(s) == IF s = "" THEN "" ELSE LowerChar(Char(s, 1)) \o Lower(SubSeq(s, 2, Len(s)))

Whitespace == {" "}

RECURSIVE LStrip(_)
LStrip(s) ==
    IF s # "" /\ Char(s, 1) \in Whitespace THEN LStrip(SubSeq(s, 2, Len(s))) ELSE s

RECURSIVE RStrip(_)
RStrip(s) ==
    IF s # "" /\ Char(s, Len(s)) \in Whitespace THEN RStrip(SubSeq(s, 1, Len(s) - 1)) ELSE s

\* s.strip()
Strip(s) == RStrip(LStrip(s))

\* s.replace(old, new): every non-overlapping occurrence, left to right
RECURSIVE Replace(_, _, _)
Replace(s, old, new) ==
    IF s = "" THEN ""
    ELSE IF StartsWith(s, old)
         THEN new \o Replace(SubSeq(s, Len(old) + 1, Len(s)), old, new)
         ELSE Char(s, 1) \o Replace(SubSeq(s, 2, Len(s)), old, new)

\* Series.str.replace(old, new, case=False): the occurrences are found without
\* regard to case, the text between them is kept as it is
RECURSIVE ReplaceNoCase(_, _, _)
ReplaceNoCase(s, old, new) ==
    IF s = "" THEN ""
    ELSE IF StartsWith(Lower(s), Lower(old))
         THEN new \o ReplaceNoCase(SubSeq(s, Len(old) + 1, Len(s)), old, new)
         ELSE Char(s, 1) \o ReplaceNoCase(SubSeq(s, 2, Len(s)), old, new)

Digits == {"0","1","2","3","4","5","6","7","8","9"}

RECURSIVE AllDigits(_)
AllDigits(s) == s = "" \/ (Char(s, 1) \in Digits /\ AllDigits(SubSeq(s, 2, Len(s))))

\* int(s) succeeds: an optional sign and decimal digits, blanks around allowed
IsIntLiteral(s) ==
    LET u == Strip(s)
        d == IF u # "" /\ Char(u, 1) \in {"-", "+"} THEN SubSeq(u, 2, Len(u)) ELSE u
    IN  d # "" /\ AllDigits(d)

\* float(s) succeeds: an integer literal, or digits with one decimal point
IsFloatLiteral(s) ==
    LET u == Strip(s)
        d == IF u # "" /\ Char(u, 1) \in {"-", "+"} THEN SubSeq(u, 2, Len(u)) ELSE u
    IN  \/ d # "" /\ AllDigits(d)
        \/ \E k \in 1..Len(d) :
              /\ Char(d, k) = "."
              /\ AllDigits(SubSeq(d, 1, k - 1))
              /\ AllDigits(SubSeq(d, k + 1, Len(d)))
              /\ Len(d) > 1

\* a timestamp literal the datetime cast accepts: YYYY-MM-DD
IsDateLiteral(s) ==
    /\ Len(s) = 10
    /\ Char(s, 5) = "-" /\ Char(s, 8) = "-"
    /\ AllDigits(SubSeq(s, 1, 4)) /\ AllDigits(SubSeq(s, 6, 7)) /\ AllDigits(SubSeq(s, 9, 10))

----------------------------------------------------------------------------
(* Python values held in a cell. *)

Str(s)   == [t |-> "str", v |-> s]
Float(s) == [t |-> "float", v |-> s]
NaN      == [t |-> "float", v |-> "nan"]
PyTrue   == [t |-> "bool", v |-> "True"]
PyFalse  == [t |-> "bool", v |-> "False"]
PyNone   == [t |-> "NoneType", v |-> "None"]
NaT      == [t |-> "NaTType", v |-> "NaT"]
Stamp(s) == [t |-> "Timestamp", v |-> s]
PyList   == [t |-> "list", v |-> "[]"]

\* str(x)
PyStr(x) == x.v

\* pd.isna(x)
IsNull(x) == x.t \in {"NoneType", "NaTType"} \/ x = NaN

\* hash(x) raises TypeError
Unhashable(x) == x.t = "list"

PyBool(b) == IF b THEN PyTrue ELSE PyFalse

\* the absent DataFrame of an attribute never loaded
None == [py |-> "None"]

----------------------------------------------------------------------------
(* base_mapper.py: the unknown-token pattern.                              *)
(* UNKNOWN_REGEX = r"$^|n\.?[a|d|/|n]+\.?|^-$|unk.*|none"                  *)

\* the characters of the class [a|d|/|n]
UnknownClass == {"a", "|", "d", "/", "n"}

\* how many characters from position i on lie in the class
RECURSIVE ClassRun(_, _)
ClassRun(s, i) ==
    IF i <= Len(s) /\ Char(s, i) \in UnknownClass THEN 1 + ClassRun(s, i + 1) ELSE 0

OptDot(s, i) == IF i <= Len(s) /\ Char(s, i) = "." THEN 1 ELSE 0

\* The length of the match of UNKNOWN_REGEX that starts at position i of a
\* non-empty s, or -1.  The alternatives are tried in the order written and
\* the quantifiers are greedy; "$^" matches the empty string alone.
UnknownMatchLen(s, i) ==
    LET d1 == OptDot(s, i + 1)
        k  == ClassRun(s, i + 1 + d1)
        d2 == OptDot(s, i + 1 + d1 + k)
    IN  IF Char(s, i) = "n" /\ k >= 1 THEN 1 + d1 + k + d2
        ELSE IF i = 1 /\ s = "-" THEN 1
        ELSE IF Slice(s, i, i + 2) = "unk" THEN Len(s) - i + 1
        ELSE IF Slice(s, i, i + 3) = "none" THEN 4
        ELSE -1

\* re.sub(UNKNOWN_REGEX, repl, s) from position i on; m is the text the pattern
\* is matched against (s itself, or s lower-cased under case=False)
RECURSIVE SubUnknownFrom(_, _, _, _)
SubUnknownFrom(s, m, i, repl) ==
    IF i > Len(s) THEN ""
    ELSE LET n == UnknownMatchLen(m, i)
         IN  IF n > 0 THEN repl \o SubUnknownFrom(s, m, i + n, repl)
             ELSE Char(s, i) \o SubUnknownFrom(s, m, i + 1, repl)

\* Series.str.replace(UNKNOWN_REGEX, repl, regex=True[, case=False]) on one value
SubUnknown(s, repl, nocase) ==
    IF s = "" THEN repl
    ELSE SubUnknownFrom(s, IF nocase THEN Lower(s) ELSE s, 1, repl)

----------------------------------------------------------------------------
(* base_mapper.py: the variable-type registry.  The reference document is  *)
(* fetched from a URL; these rows stand for it, one per type it declares.  *)

VariablesCsv == <<
    [tableName |-> "WWMeasure", variableName |-> "qualityFlag",  variableType |-> "boolean"],
    [tableName |-> "WWMeasure", variableName |-> "reportable",   variableType |-> "boolean"],
    [tableName |-> "WWMeasure", variableName |-> "value",        variableType |-> "float"],
    [tableName |-> "WWMeasure", variableName |-> "index",        variableType |-> "integer"],
    [tableName |-> "WWMeasure", variableName |-> "analysisDate", variableType |-> "date"],
    [tableName |-> "WWMeasure", variableName |-> "notes",        variableType |-> "string"],
    [tableName |-> "WWMeasure", variableName |-> "type",         variableType |-> "category"],
    [tableName |-> "Polygon",   variableName |-> "wkt",          variableType |-> "string"],
    [tableName |-> "Polygon",   variableName |-> "file",         variableType |-> "blob"] >>

\* .replace(r"date(time)?", "datetime64[ns]", regex=True)
RECURSIVE ReplaceDate(_)
ReplaceDate(s) ==
    IF s = "" THEN ""
    ELSE IF StartsWith(s, "datetime")
         THEN "datetime64[ns]" \o ReplaceDate(SubSeq(s, 9, Len(s)))
    ELSE IF StartsWith(s, "date")
         THEN "datetime64[ns]" \o ReplaceDate(SubSeq(s, 5, Len(s)))
    ELSE Char(s, 1) \o ReplaceDate(SubSeq(s, 2, Len(s)))

\* the chain of whole-value replacements that follows
TypeToken(variableType) ==
    LET a == ReplaceDate(variableType)
    IN  CASE a = "boolean" -> "bool"
          [] a = "float"   -> "float64"
          [] a = "integer" -> "int64"
          [] a = "blob"    -> "object"
          [] OTHER         -> a

get_data_types ==
    LET tables == {VariablesCsv[k].tableName : k \in DOMAIN VariablesCsv}
        rowsOf(tab) == {k \in DOMAIN VariablesCsv : VariablesCsv[k].tableName = tab}
        names(tab) == {Lower(VariablesCsv[k].variableName) : k \in rowsOf(tab)}
        \* to_dict keeps the last row of a name listed twice
        last(tab, n) == CHOOSE k \in rowsOf(tab) :
                            /\ Lower(VariablesCsv[k].variableName) = n
                            /\ \A j \in rowsOf(tab) :
                                   Lower(VariablesCsv[j].variableName) = n => j <= k
    IN  [tab \in tables |->
            [n \in names(tab) |-> TypeToken(VariablesCsv[last(tab, n)].variableType)]]

DATA_TYPES == get_data_types

----------------------------------------------------------------------------
(* base_mapper.py: parse_types(table_name, series).                        *)

\* the declared type of the column: "string" when the registry does not list it
DesiredType(table_name, name) ==
    LET variable_name == Lower(name)
        lookup_table == DATA_TYPES[table_name]
    IN  IF variable_name \in DOMAIN lookup_table
        THEN lookup_table[variable_name] ELSE "string"

\* line 48, as written: the name tested has been lower-cased on line 41
DefaultBool(variable_name) ==
    IF Contains(variable_name, "qualityFlag") THEN "false" ELSE "true"

\* lines 47-54 on one value
CastBool(variable_name, x) ==
    LET s0 == Lower(Strip(PyStr(x)))
        s1 == SubUnknown(s0, DefaultBool(variable_name), FALSE)
        s2 == ReplaceNoCase(s1, "oui", "true")
        s3 == ReplaceNoCase(s2, "yes", "true")
    IN  PyBool(StartsWith(s3, "true"))

\* lines 56-61 on one value
CastString(variable_name, x) ==
    LET s0 == Strip(PyStr(x))
        s1 == SubUnknown(s0, "", TRUE)
    IN  Str(IF variable_name # "wkt" THEN Lower(s1) ELSE s1)

\* pd.to_numeric(series, errors="coerce") on one value
ToNumeric(x) ==
    CASE x.t = "float" -> x
      [] x.t = "bool"  -> Float(IF x = PyTrue THEN "1.0" ELSE "0.0")
      [] x.t = "str" /\ IsFloatLiteral(x.v) -> Float(Strip(x.v))
      [] OTHER -> NaN

\* the branches of line 62 as written: "inst64" names no type the registry yields
NumericTypes == {"inst64", "float64"}

\* series.astype(desired_type) raises on this value
AstypeRaises(desired_type, x) ==
    CASE desired_type = "int64" ->
            ~ \/ x.t = "bool"
              \/ x.t = "str" /\ IsIntLiteral(x.v)
              \/ x.t = "float" /\ IsIntLiteral(x.v)
      [] desired_type = "float64" ->
            ~ \/ x.t \in {"float", "bool", "NoneType"}
              \/ x.t = "str" /\ (IsFloatLiteral(x.v) \/ Lower(Strip(x.v)) = "nan")
      [] desired_type = "datetime64[ns]" ->
            ~ \/ IsNull(x)
              \/ x.t = "Timestamp"
              \/ x.t = "str" /\ IsDateLiteral(x.v)
      [] desired_type \in {"bool", "string", "category", "object"} -> FALSE
      [] OTHER -> TRUE

\* series.astype(desired_type) on a value it accepts
Astype(desired_type, x) ==
    CASE desired_type = "int64" ->
            IF x.t = "bool" THEN [t |-> "int", v |-> IF x = PyTrue THEN "1" ELSE "0"]
            ELSE [t |-> "int", v |-> Strip(x.v)]
      [] desired_type = "float64" ->
            IF x.t = "NoneType" \/ (x.t = "str" /\ Lower(Strip(x.v)) = "nan") THEN NaN
            ELSE ToNumeric(x)
      [] desired_type = "datetime64[ns]" ->
            IF IsNull(x) THEN NaT ELSE Stamp(x.v)
      [] desired_type = "bool" -> PyBool(x \notin {PyFalse, Str(""), PyNone})
      [] OTHER -> x

Raised(what) == [raised |-> TRUE, error |-> what, dtype |-> "", vals |-> <<>>]

parse_types(table_name, s) ==
    IF table_name \notin DOMAIN DATA_TYPES THEN Raised("KeyError")
    ELSE
    LET variable_name == Lower(s.name)
        desired_type == DesiredType(table_name, s.name)
        branch(x) ==
            IF desired_type = "bool" THEN CastBool(variable_name, x)
            ELSE IF desired_type = "string" \/ desired_type = "category"
                 THEN CastString(variable_name, x)
            ELSE IF desired_type \in NumericTypes THEN ToNumeric(x)
            ELSE x
        vals == [k \in DOMAIN s.vals |-> branch(s.vals[k])]
    IN  IF \E k \in DOMAIN vals : AstypeRaises(desired_type, vals[k])
        THEN Raised("ValueError")
        ELSE [raised |-> FALSE, error |-> "", dtype |-> desired_type,
              vals |-> [k \in DOMAIN vals |-> Astype(desired_type, vals[k])]]

----------------------------------------------------------------------------
(* The type cast as a machine: a column is drawn, parse_types is applied.  *)

\* every sequence over S of length 1..n
SeqsUpTo(S, n) == UNION {[1..k -> S] : k \in 1..n}

RawCells == {Str("n/a"), Str("Oui"), Str("yes"), Str("no"), Str(" N/A "), Str(""),
             Str("12"), Str("1.5"), Str("abc"), Str("2021-01-05"), NaN, PyTrue}

CastColumns == {<<"WWMeasure", "qualityFlag">>, <<"WWMeasure", "reportable">>,
                <<"WWMeasure", "value">>, <<"WWMeasure", "index">>,
                <<"WWMeasure", "analysisDate">>, <<"WWMeasure", "notes">>,
                <<"WWMeasure", "type">>, <<"WWMeasure", "comment">>,
                <<"Polygon", "wkt">>, <<"Polygon", "file">>,
                <<"Lookup", "value">>}

\* the variables of the other machines, at rest
AggregateIdle == odm = <<>> /\ call = <<>> /\ out = <<>>
EngineIdle    == target = <<>> /\ staging = <<>> /\ saved = <<>>
CastIdle      == series = <<>> /\ cast = <<>>
PipelineIdle  == run = <<>>

InitCast ==
    /\ \E c \in CastColumns, vals \in SeqsUpTo(RawCells, MaxSeries) :
           series = [table |-> c[1], name |-> c[2], vals |-> vals]
    /\ cast = None
    /\ AggregateIdle /\ EngineIdle /\ PipelineIdle

ParseTypes ==
    /\ cast = None
    /\ cast' = parse_types(series.table, series)
    /\ UNCHANGED <<series, odm, call, out, target, staging, saved, run>>

NextCast == ParseTypes

SpecCast == InitCast /\ [][NextCast]_vars

Registered == series.table \in DOMAIN DATA_TYPES

\* C4 (as claimed): on a column the registry declares boolean, "n/a" casts to
\* false when the column is named qualityFlag and to true when the name does
\* not contain qualityFlag; "Oui" and "yes" cast to true.
C4_BoolCastDefaults ==
    (cast # None /\ Registered /\ DesiredType(series.table, series.name) = "bool") =>
        /\ ~cast.raised
        /\ \A k \in DOMAIN series.vals :
              /\ series.vals[k] = Str("n/a") =>
                    cast.vals[k] = PyBool(~Contains(series.name, "qualityFlag"))
              /\ series.vals[k] \in {Str("Oui"), Str("yes")} => cast.vals[k] = PyTrue

\* what the literal "Oui"/"yes"/"n/a" rules give on every boolean column but qualityFlag
C4_HoldsElsewhere ==
    (cast # None /\ Registered /\ DesiredType(series.table, series.name) = "bool"
        /\ ~Contains(series.name, "qualityFlag")) =>
        /\ ~cast.raised
        /\ \A k \in DOMAIN series.vals :
              series.vals[k] \in {Str("n/a"), Str("Oui"), Str("yes")} => cast.vals[k] = PyTrue

\* a value no number can be read from
Unparsable(x) == x.t = "str" /\ ~IsFloatLiteral(x.v)

\* C5 (as claimed): on a column the registry declares numeric (integer or
\* float) parse_types does not raise, returns a column of the declared type,
\* and every value that is no number has become the missing-numeric sentinel.
C5_NumericNeverRaises ==
    (cast # None /\ Registered
        /\ DesiredType(series.table, series.name) \in {"int64", "float64"}) =>
        /\ ~cast.raised
        /\ cast.dtype = DesiredType(series.table, series.name)
        /\ \A k \in DOMAIN series.vals : Unparsable(series.vals[k]) => cast.vals[k] = NaN

\* the float half of C5, which the code does give
C5_FloatNeverRaises ==
    (cast # None /\ Registered /\ DesiredType(series.table, series.name) = "float64") =>
        /\ ~cast.raised
        /\ cast.dtype = "float64"
        /\ \A k \in DOMAIN series.vals : Unparsable(series.vals[k]) => cast.vals[k] = NaN

----------------------------------------------------------------------------
(* pandas DataFrames, as odm.py uses them. *)

SeqToSet(s) == {s[k] : k \in DOMAIN s}

\* the elements of s at the positions in keep, in order
Take(s, keep) ==
    LET pos == SelectSeq([k \in DOMAIN s |-> k], LAMBDA k : k \in keep)
    IN  [j \in DOMAIN pos |-> s[pos[j]]]

\* the row labels read_excel, read_sql and ignore_index=True give: 0, 1, 2, ...
RangeIndex(n) == [k \in 1..n |-> k - 1]

DataFrame(cols, rows) ==
    [cols |-> cols, index |-> RangeIndex(Len(rows)), rows |-> rows]

\* a row brought to the given columns; a column it lacks holds NaN
Reindex(row, cols) ==
    [c \in SeqToSet(cols) |-> IF c \in DOMAIN row THEN row[c] ELSE NaN]

\* df.append(other): the columns of df, then the new ones of other; the rows
\* of df, then those of other; every row keeps its label.  concat drops a
\* None among the frames it is given.
append(df, other) ==
    IF other = None THEN df
    ELSE LET cols == df.cols \o SelectSeq(other.cols, LAMBDA c : c \notin SeqToSet(df.cols))
             rows == df.rows \o other.rows
         IN  [cols  |-> cols,
              index |-> df.index \o other.index,
              rows  |-> [k \in DOMAIN rows |-> Reindex(rows[k], cols)]]

\* a missing value taken for different from every value, itself included
SameCell_Strict(x, y) == x = y /\ ~IsNull(x)

\* two cells drop_duplicates takes for the same: equal, or both missing
SameCell(x, y) == x = y \/ (IsNull(x) /\ IsNull(y))

SameRow(r, q) == \A c \in DOMAIN r : SameCell(r[c], q[c])

\* duplicated() hashes every cell: a list in a cell raises TypeError
DropDuplicatesRaises(df) ==
    \E k \in DOMAIN df.rows : \E c \in DOMAIN df.rows[k] : Unhashable(df.rows[k][c])

\* drop_duplicates left out of line 351
drop_duplicates_Forgotten(df) == df

\* df.drop_duplicates(): the first of each group of equal rows is kept, with its label
drop_duplicates(df) ==
    LET keep == {k \in DOMAIN df.rows :
                    \A j \in 1..(k - 1) : ~SameRow(df.rows[j], df.rows[k])}
    IN  [cols |-> df.cols, index |-> Take(df.index, keep), rows |-> Take(df.rows, keep)]

----------------------------------------------------------------------------
(* odm.py: the aggregate and add_to_attr. *)

\* the attributes __init__ sets (lines 41-50); "lookup" is accepted and never set
Attributes == {"sample", "ww_measure", "site", "site_measure", "reporter",
               "lab", "assay_method", "instrument", "polygon", "cphd"}

\* Odm(): every attribute None
NewOdm == [a \in Attributes |-> None]

\* lines 350-352 raise: what the except clause of line 353 catches
ConcatRaises(current_value, new_df) ==
    DropDuplicatesRaises(append(current_value, new_df))

\* the first write deduplicated like a merge
add_to_attr_DedupFirst(self, attribute, new_df) ==
    LET current_value == self[attribute]
    IN  IF current_value = None
        THEN [self EXCEPT ![attribute] = drop_duplicates(new_df)]
        ELSE IF ConcatRaises(current_value, new_df)
             THEN [self EXCEPT ![attribute] = current_value]
             ELSE [self EXCEPT ![attribute] =
                        drop_duplicates(append(current_value, new_df))]

\* the except clause storing the new table in place of the old one
add_to_attr_ReplaceOnFailure(self, attribute, new_df) ==
    LET current_value == self[attribute]
    IN  IF current_value = None
        THEN [self EXCEPT ![attribute] = new_df]
        ELSE IF ConcatRaises(current_value, new_df)
             THEN [self EXCEPT ![attribute] = new_df]
             ELSE [self EXCEPT ![attribute] =
                        drop_duplicates(append(current_value, new_df))]

\* add_to_attr(self, attribute, new_df): the aggregate after the call
add_to_attr(self, attribute, new_df) ==
    LET current_value == self[attribute]
    IN  IF current_value = None
        THEN [self EXCEPT ![attribute] = new_df]
        ELSE IF ConcatRaises(current_value, new_df)
             THEN [self EXCEPT ![attribute] = current_value]
             ELSE [self EXCEPT ![attribute] =
                        drop_duplicates(append(current_value, new_df))]

\* getattr(self, attribute) on line 346 raises for a name __init__ never set
AddToAttrRaises(self, attribute) == attribute \notin DOMAIN self

----------------------------------------------------------------------------
(* odm.py: the helpers the reshaping methods share. *)

\* s.split(sep), sep one character
RECURSIVE Split(_, _)
Split(s, sep) ==
    IF ~Contains(s, sep) THEN <<s>>
    ELSE LET k == CHOOSE k \in 1..Len(s) :
                      Char(s, k) = sep /\ \A j \in 1..(k - 1) : Char(s, j) # sep
         IN  <<SubSeq(s, 1, k - 1)>> \o Split(SubSeq(s, k + 1, Len(s)), sep)

\* sep.join(parts)
RECURSIVE Join(_, _)
Join(parts, sep) ==
    IF Len(parts) = 0 THEN ""
    ELSE IF Len(parts) = 1 THEN parts[1]
    ELSE parts[1] \o sep \o Join(Tail(parts), sep)

\* df.drop(columns=cs), the columns known to be there
DropColumns(df, cs) ==
    LET cols == SelectSeq(df.cols, LAMBDA c : c \notin cs)
    IN  [cols  |-> cols,
         index |-> df.index,
         rows  |-> [k \in DOMAIN df.rows |-> [c \in SeqToSet(cols) |-> df.rows[k][c]]]]

\* df.add_prefix(p)
add_prefix(df, p) ==
    [cols  |-> [k \in DOMAIN df.cols |-> p \o df.cols[k]],
     index |-> df.index,
     rows  |-> [k \in DOMAIN df.rows |->
                  [c \in {p \o d : d \in SeqToSet(df.cols)} |->
                      df.rows[k][SubSeq(c, Len(p) + 1, Len(c))]]]]

\* df[c].dtype, read off the values the column holds
Dtype(df, c) ==
    LET ts == {df.rows[k][c].t : k \in DOMAIN df.rows}
    IN  IF ts \cap {"str", "NoneType", "list"} # {} THEN "object"
        ELSE IF ts \cap {"Timestamp", "NaTType"} # {} THEN "datetime64[ns]"
        ELSE IF "float" \in ts THEN "float64"
        ELSE IF "int" \in ts THEN "int64"
        ELSE IF "bool" \in ts THEN "bool"
        ELSE "object"

\* what a column of None holds after .astype(dtype) (lines 181-182)
NoneAstype(dtype) ==
    CASE dtype = "float64"        -> NaN
      [] dtype = "datetime64[ns]" -> NaT
      [] dtype = "bool"           -> PyFalse
      [] OTHER                    -> PyNone

\* __remove_access(df): the columns whose lower-cased name contains "access" go
remove_access(df) ==
    DropColumns(df, {c \in SeqToSet(df.cols) : Contains(Lower(c), "access")})

Failed(what) == [raised |-> TRUE, error |-> what, df |-> None]
Returned(df) == [raised |-> FALSE, error |-> "", df |-> df]

----------------------------------------------------------------------------
(* odm.py: __widen(df, features, qualifiers), lines 145-190. *)

\* the qualifier text taken as it is, "/" kept
FeatureName_SlashKept(row, qualifiers, feature) ==
    Join([q \in DOMAIN qualifiers |-> PyStr(row[qualifiers[q]])] \o <<feature>>, ".")

\* lines 149-174: the name of the column a row's feature value goes to
FeatureName(row, qualifiers, feature) ==
    LET qualifying_values ==
            [q \in DOMAIN qualifiers |->
                LET qualifier_value == Replace(PyStr(row[qualifiers[q]]), "/", "-")
                IN  IF qualifiers[q] = "qualityFlag"
                    THEN Replace(Replace(qualifier_value, "True", "quality_issue"),
                                 "False", "no_issue")
                    ELSE qualifier_value]
        qualifying_text == Join(qualifying_values, ".")
    IN  Join(<<qualifying_text, feature>>, ".")

\* lines 180-185 for the row at position k of the copy and feature f:
\* the column is created when it is new, then df.loc[i, feature_name] is set,
\* which sets every row labelled i
WidenStep(df, df_copy, qualifiers, feature, feature_dtype, k) ==
    LET row == df_copy.rows[k]
        i == df_copy.index[k]
        feature_name == FeatureName(row, qualifiers, feature)
        isNew == feature_name \notin SeqToSet(df.cols)
        cols == IF isNew THEN Append(df.cols, feature_name) ELSE df.cols
        withCol(r) == [c \in SeqToSet(cols) |->
                          IF c \in DOMAIN r THEN r[c] ELSE NoneAstype(feature_dtype)]
    IN  [cols  |-> cols,
         index |-> df.index,
         rows  |-> [j \in DOMAIN df.rows |->
                      IF df.index[j] = i
                      THEN [withCol(df.rows[j]) EXCEPT ![feature_name] = row[feature]]
                      ELSE withCol(df.rows[j])]]

RECURSIVE WidenFrom(_, _, _, _, _, _)
WidenFrom(df, df_copy, features, qualifiers, f, k) ==
    IF f > Len(features) THEN df
    ELSE IF k > Len(df_copy.rows)
         THEN WidenFrom(df, df_copy, features, qualifiers, f + 1, 1)
         ELSE \* the step is taken before the loop goes on; it keeps the rows
              \* of df and adds at most one column
              LET widened == WidenStep(df, df_copy, qualifiers, features[f],
                                       Dtype(df_copy, features[f]), k)
              IN  IF Len(widened.rows) = Len(df.rows)
                  THEN WidenFrom(widened, df_copy, features, qualifiers, f, k + 1)
                  ELSE widened

widen(df, features, qualifiers) ==
    IF ~(SeqToSet(features) \cup SeqToSet(qualifiers) \subseteq SeqToSet(df.cols))
    THEN Failed("KeyError")
    ELSE IF Len(df.rows) > 0 /\ \E f \in DOMAIN features : Dtype(df, features[f]) = "int64"
    THEN Failed("TypeError")
    ELSE Returned(DropColumns(WidenFrom(df, df, features, qualifiers, 1, 1),
                              SeqToSet(features) \cup SeqToSet(qualifiers)))

----------------------------------------------------------------------------
(* odm.py: __parse_sample, lines 274-305.                                  *)
(*                                                                         *)
(* df starts as self.sample itself; df_copy is a snapshot of it.  Until    *)
(* the first df.append, every write to df is a write to self.sample.       *)
(* The loop state is [df, stored, aliased, error]: the frame df names, the *)
(* frame self.sample names, whether they are one object, and the exception *)
(* raised, if any.                                                         *)

\* the ids of a siteID field: {x.strip() for x in sites.split(";")}
SiteIds(sites) == {Strip(x) : x \in SeqToSet(Split(sites, ";"))}

\* The order in which a Python set hands out its elements is not specified:
\* ord is one order of all the ids, the set follows it.
SetOrder(S, ord) == SelectSeq(ord, LAMBDA x : x \in S)

Orders(S) == {f \in [1..Cardinality(S) -> S] : \A a, b \in DOMAIN f : f[a] = f[b] => a = b}

\* lines 283-296 for the row at position k of df_copy.
\* chained_raises: line 290 assigns through df["siteID"].iloc, a chained
\* assignment; line 17 makes pandas raise on one it detects, which it does
\* when the column is a view of a block of a frame of several dtypes, and
\* not when the column is an extension array.
ExplodeStep(st, df_copy, k, ord, chained_raises) ==
    LET i == df_copy.index[k]
        sites == df_copy.rows[k]["siteID"]
    IN  IF sites.t # "str" THEN [st EXCEPT !.error = "TypeError"]
        ELSE IF ~Contains(sites.v, ";") THEN st
        ELSE IF chained_raises THEN [st EXCEPT !.error = "SettingWithCopyError"]
        ELSE IF i + 1 > Len(st.df.rows) THEN [st EXCEPT !.error = "IndexError"]
        ELSE
        LET site_ids == SetOrder(SiteIds(sites.v), ord)
            \* line 290: the row at POSITION i takes the first id popped
            written == [st.df EXCEPT !.rows[i + 1]["siteID"] = Str(site_ids[1])]
            \* lines 293-296: one copy of the row at position i per id left
            new_rows == [j \in 1..(Len(site_ids) - 1) |->
                            [written.rows[i + 1] EXCEPT !["siteID"] = Str(site_ids[j + 1])]]
            grown == DataFrame(written.cols, written.rows \o new_rows)
        IN  IF Len(new_rows) = 0
            THEN [st EXCEPT !.df = written,
                            !.stored = IF st.aliased THEN written ELSE st.stored]
            ELSE [df      |-> grown,
                  stored  |-> IF st.aliased THEN written ELSE st.stored,
                  aliased |-> FALSE,
                  error   |-> ""]

RECURSIVE ExplodeFrom(_, _, _, _, _)
ExplodeFrom(st, df_copy, k, ord, chained_raises) ==
    IF k > Len(df_copy.rows) \/ st.error # "" THEN st
    ELSE ExplodeFrom(ExplodeStep(st, df_copy, k, ord, chained_raises),
                     df_copy, k + 1, ord, chained_raises)

\* the column overwritten where it should be filled
FillnaFrom_Overwrite(df, c, other) ==
    [df EXCEPT !.rows = [k \in DOMAIN df.rows |->
        [df.rows[k] EXCEPT ![c] = df.rows[k][other]]]]

\* df[c] = df[c].fillna(df[other]): both columns carry the index of df, so the
\* fill is row by row
FillnaFrom(df, c, other) ==
    [df EXCEPT !.rows = [k \in DOMAIN df.rows |->
        IF IsNull(df.rows[k][c]) THEN [df.rows[k] EXCEPT ![c] = df.rows[k][other]]
        ELSE df.rows[k]]]

\* lines 299-305 on the loop's final state
FinishSample(st) ==
    LET has(c) == c \in SeqToSet(st.df.cols)
        stored(df) == IF st.aliased THEN df ELSE st.stored
    IN  IF ~has("dateTimeStart") \/ ~has("dateTime")
        THEN [result |-> Failed("KeyError"), stored |-> st.stored]
        ELSE LET df1 == FillnaFrom(st.df, "dateTimeStart", "dateTime")
             IN  IF ~has("dateTimeEnd")
                 THEN [result |-> Failed("KeyError"), stored |-> stored(df1)]
                 ELSE LET df2 == FillnaFrom(df1, "dateTimeEnd", "dateTime")
                          df3 == DropColumns(df2, {"dateTime"})
                      IN  [result |-> Returned(add_prefix(df3, "Sample.")),
                           stored |-> stored(df3)]

\* __parse_sample(self): what it returns or raises, and self.sample afterwards
parse_sample(sample, ord, chained_raises) ==
    IF sample = None THEN [result |-> Failed("AttributeError"), stored |-> sample]
    ELSE IF Len(sample.rows) > 0 /\ "siteID" \notin SeqToSet(sample.cols)
    THEN [result |-> Failed("KeyError"), stored |-> sample]
    ELSE LET st == ExplodeFrom([df |-> sample, stored |-> sample,
                                aliased |-> TRUE, error |-> ""],
                               sample, 1, ord, chained_raises)
         IN  IF st.error # "" THEN [result |-> Failed(st.error), stored |-> st.stored]
             ELSE FinishSample(st)

\* every id the siteID fields of a Sample table name
AllSiteIds(sample) ==
    UNION {IF sample.rows[k]["siteID"].t = "str"
           THEN SiteIds(sample.rows[k]["siteID"].v) ELSE {} : k \in DOMAIN sample.rows}

----------------------------------------------------------------------------
(* odm.py: get_geoJSON, lines 465-493. *)

\* utilities.convert_wkt_to_geojson: the geometry the WKT text denotes
convert_wkt_to_geojson(wkt) == [type |-> "Polygon", coordinates |-> PyStr(wkt)]

\* only the column named wkt left out
IsGeometryColumn_Exact(col) == col = "wkt"

\* line 488: a column whose name contains "wkt" is no property
IsGeometryColumn(col) == Contains(col, "wkt")

get_geoJSON(polygon_df) ==
    IF polygon_df = None THEN [raised |-> TRUE, error |-> "AttributeError", geo |-> None]
    ELSE IF Len(polygon_df.rows) > 0 /\ "wkt" \notin SeqToSet(polygon_df.cols)
    THEN [raised |-> TRUE, error |-> "KeyError", geo |-> None]
    ELSE [raised |-> FALSE, error |-> "",
          geo |-> [type |-> "FeatureCollection",
                   features |->
                      [k \in DOMAIN polygon_df.rows |->
                         LET row == polygon_df.rows[k]
                             i == polygon_df.index[k]
                         IN  [type |-> "Feature",
                              geometry |-> convert_wkt_to_geojson(row["wkt"]),
                              properties |->
                                 [col \in {c \in SeqToSet(polygon_df.cols) :
                                              ~IsGeometryColumn(c)} |-> row[col]],
                              id |-> i]]]]

----------------------------------------------------------------------------
(* The tables handed to the aggregate.  Each is a table as a reader or a   *)
(* mapper hands it over: labelled 0, 1, 2, ...                             *)

Row(cols, vals) == [c \in SeqToSet(cols) |-> vals[CHOOSE k \in DOMAIN cols : cols[k] = c]]

SampleCols == <<"sampleID", "siteID", "dateTime", "dateTimeStart", "dateTimeEnd">>

\* a grab sample at one site: only dateTime is set
SampleGrab ==
    Row(SampleCols, <<Str("s1"), Str("A"), Stamp("2021-01-05"), NaT, NaT>>)
\* a composite sample two sites share: the window is set, dateTime is not
SampleShared ==
    Row(SampleCols, <<Str("s2"), Str("A; B"), NaT, Stamp("2021-01-05"), Stamp("2021-01-06")>>)
\* a sample of two sites with a start and no end
SampleOpen ==
    Row(SampleCols, <<Str("s3"), Str("B;C"), Stamp("2021-01-07"), Stamp("2021-01-06"), NaT>>)

SampleTables ==
    { DataFrame(SampleCols, <<SampleGrab>>),
      DataFrame(SampleCols, <<SampleGrab, SampleShared>>),
      DataFrame(SampleCols, <<SampleOpen>>),
      DataFrame(SampleCols, <<SampleShared, SampleOpen>>) }

SiteMeasureCols == <<"siteMeasureID", "dateTime", "type", "unit", "aggregation",
                     "value", "notes", "accessToAll">>

MeasureFlow ==
    Row(SiteMeasureCols, <<Str("m1"), Stamp("2021-01-05"), Str("flow"), Str("m3/d"),
                           Str("single"), Float("1.5"), Str("dry"), PyTrue>>)
\* the unit written with a dash
MeasureFlowDash ==
    Row(SiteMeasureCols, <<Str("m2"), Stamp("2021-01-05"), Str("flow"), Str("m3-d"),
                           Str("single"), Float("2.5"), Str(""), PyTrue>>)
MeasureTemp ==
    Row(SiteMeasureCols, <<Str("m3"), Stamp("2021-01-06"), Str("temp"), Str("C"),
                           Str("mean"), Float("20.0"), Str("rain"), PyFalse>>)

SiteMeasureTables ==
    { DataFrame(SiteMeasureCols, <<MeasureFlow, MeasureTemp>>),
      DataFrame(SiteMeasureCols, <<MeasureFlow, MeasureFlowDash>>),
      DataFrame(SiteMeasureCols, <<MeasureTemp>>) }

PolygonCols == <<"polygonID", "name", "wkt">>
PolygonColsWide == <<"polygonID", "name", "wkt", "wktSource">>

PolygonTables ==
    { DataFrame(PolygonCols,
          <<Row(PolygonCols, <<Str("p1"), Str("east"), Str("POLYGON((0 0,1 0,1 1,0 0))")>>),
            Row(PolygonCols, <<Str("p2"), Str("west"), Str("POLYGON((2 2,3 2,3 3,2 2))")>>)>>),
      DataFrame(PolygonColsWide,
          <<Row(PolygonColsWide, <<Str("p3"), Str("north"),
                                   Str("POLYGON((4 4,5 4,5 5,4 4))"), Str("survey")>>)>>) }

LabCols == <<"labID", "name">>
LabColsMail == <<"labID", "contactEmail">>
LabColsList == <<"labID", "name", "contacts">>

LabTables ==
    { DataFrame(LabCols, <<Row(LabCols, <<Str("l1"), Str("north lab")>>)>>),
      \* the same row twice: a table is not deduplicated before it is handed over
      DataFrame(LabCols, <<Row(LabCols, <<Str("l1"), Str("north lab")>>),
                           Row(LabCols, <<Str("l1"), Str("north lab")>>),
                           Row(LabCols, <<Str("l2"), Str("south lab")>>)>>),
      \* other columns
      DataFrame(LabColsMail, <<Row(LabColsMail, <<Str("l1"), Str("a@b.c")>>)>>),
      \* a cell holding a list, which cannot be hashed
      DataFrame(LabColsList, <<Row(LabColsList, <<Str("l3"), Str("west lab"), PyList>>)>>) }

Inputs ==
    ({"sample"} \X SampleTables)
        \cup ({"site_measure"} \X SiteMeasureTables)
        \cup ({"polygon"} \X PolygonTables)
        \cup ({"lab"} \X LabTables)
        \* an attribute __init__ accepts and never sets
        \cup {<<"lookup", DataFrame(LabCols, <<Row(LabCols, <<Str("l1"), Str("north lab")>>)>>)>>}

----------------------------------------------------------------------------
(* The aggregate as a machine. *)

NoResult == [raised |-> FALSE, error |-> ""]

Init ==
    /\ odm = NewOdm
    /\ call = [op |-> "Odm", attribute |-> "", new_df |-> None, args |-> <<>>,
               before |-> NewOdm, merges |-> 0]
    /\ out = NoResult
    /\ CastIdle /\ EngineIdle /\ PipelineIdle

\* store.add_to_attr(attribute, new_df)
AddToAttr(attribute, new_df) ==
    /\ call.merges < MaxMerges
    /\ call' = [op |-> "add_to_attr", attribute |-> attribute, new_df |-> new_df,
                args |-> <<>>, before |-> odm, merges |-> call.merges + 1]
    /\ IF AddToAttrRaises(odm, attribute)
       THEN odm' = odm /\ out' = [raised |-> TRUE, error |-> "AttributeError"]
       ELSE odm' = add_to_attr(odm, attribute, new_df) /\ out' = NoResult
    /\ UNCHANGED <<series, cast, target, staging, saved, run>>

\* the call of self.__parse_sample() (line 645)
ParseSample(ord, chained_raises) ==
    LET r == parse_sample(odm["sample"], ord, chained_raises)
    IN  /\ odm["sample"] # None
        /\ call' = [op |-> "parse_sample", attribute |-> "sample", new_df |-> None,
                    args |-> <<ord, chained_raises>>, before |-> odm,
                    merges |-> call.merges]
        /\ odm' = [odm EXCEPT !["sample"] = r.stored]
        /\ out' = r.result
        /\ UNCHANGED <<series, cast, target, staging, saved, run>>

SiteMeasureFeatures == <<"value", "notes">>
SiteMeasureQualifiers == <<"type", "unit", "aggregation">>

\* lines 250-264 of __parse_site_measure: the access columns go, then __widen
WidenSiteMeasure ==
    /\ odm["site_measure"] # None
    /\ call' = [op |-> "widen", attribute |-> "site_measure", new_df |-> None,
                args |-> <<SiteMeasureFeatures, SiteMeasureQualifiers>>, before |-> odm,
                merges |-> call.merges]
    /\ out' = widen(remove_access(odm["site_measure"]),
                    SiteMeasureFeatures, SiteMeasureQualifiers)
    /\ UNCHANGED <<odm, series, cast, target, staging, saved, run>>

\* store.get_geoJSON()
GetGeoJSON ==
    /\ odm["polygon"] # None
    /\ call' = [op |-> "get_geoJSON", attribute |-> "polygon", new_df |-> None,
                args |-> <<>>, before |-> odm, merges |-> call.merges]
    /\ out' = get_geoJSON(odm["polygon"])
    /\ UNCHANGED <<odm, series, cast, target, staging, saved, run>>

Next ==
    \/ \E in \in Inputs : AddToAttr(in[1], in[2])
    \/ \E chained_raises \in BOOLEAN :
          \E ord \in (IF odm["sample"] = None THEN {<<>>}
                      ELSE Orders(AllSiteIds(odm["sample"]))) :
              ParseSample(ord, chained_raises)
    \/ WidenSiteMeasure
    \/ GetGeoJSON

Spec == Init /\ [][Next]_vars

----------------------------------------------------------------------------
(* add_to_attr: C1, C2, C3. *)

Merged == call.op = "add_to_attr" /\ call.attribute \in Attributes

OthersUnchanged == \A a \in Attributes \ {call.attribute} : odm[a] = call.before[a]

\* C1: add_to_attr on an attribute that is None sets it to exactly new_df (the
\* columns, the rows and their order, nothing removed or added) and changes
\* no other attribute.
C1_FirstWriteStoresTable ==
    (Merged /\ call.before[call.attribute] = None) =>
        /\ ~out.raised
        /\ odm[call.attribute] = call.new_df
        /\ OthersUnchanged

\* a first write of a table that holds the same row twice
C1_Witness ==
    /\ Merged /\ call.before[call.attribute] = None
    /\ odm[call.attribute] # None
    /\ \E j, k \in DOMAIN call.new_df.rows : j < k /\ call.new_df.rows[j] = call.new_df.rows[k]

\* C2: add_to_attr on a populated attribute, the concatenation failing: the
\* call does not raise, the attribute keeps its value and so does every other.
C2_FailedMergeKeepsValue ==
    (Merged /\ call.before[call.attribute] # None
        /\ ConcatRaises(call.before[call.attribute], call.new_df)) =>
        /\ ~out.raised
        /\ odm[call.attribute] = call.before[call.attribute]
        /\ OthersUnchanged

\* a merge that failed, of a table unlike the one stored
C2_Witness ==
    /\ Merged /\ call.before[call.attribute] # None
    /\ ConcatRaises(call.before[call.attribute], call.new_df)
    /\ call.new_df # call.before[call.attribute]
    /\ odm[call.attribute] # None

\* the rows of the stored table and of the new one, in that order, on the
\* columns of the result
C3_Offered ==
    LET res == odm[call.attribute]
        all == call.before[call.attribute].rows \o call.new_df.rows
    IN  [k \in DOMAIN all |-> Reindex(all[k], res.cols)]

\* where a row first stands among the rows offered
C3_FirstAt(r) ==
    CHOOSE k \in DOMAIN C3_Offered :
        SameRow(C3_Offered[k], r) /\ \A j \in 1..(k - 1) : ~SameRow(C3_Offered[j], r)

\* C3: add_to_attr on a populated attribute, the concatenation succeeding: the
\* attribute holds the existing rows followed by the new ones with the exact
\* duplicates removed, the first occurrence kept: every row of the old value
\* and of the new table is there, none twice, in the order of first occurrence.
C3_MergeAppendsAndDedups ==
    (Merged /\ call.before[call.attribute] # None
        /\ ~ConcatRaises(call.before[call.attribute], call.new_df)) =>
        LET old == call.before[call.attribute]
            res == odm[call.attribute]
        IN  /\ ~out.raised
            /\ SeqToSet(res.cols) = SeqToSet(old.cols) \cup SeqToSet(call.new_df.cols)
            /\ \A k \in DOMAIN C3_Offered :
                  \E j \in DOMAIN res.rows : SameRow(res.rows[j], C3_Offered[k])
            /\ \A j \in DOMAIN res.rows :
                  \E k \in DOMAIN C3_Offered : res.rows[j] = C3_Offered[k]
            /\ \A i, j \in DOMAIN res.rows :
                  i < j => /\ ~SameRow(res.rows[i], res.rows[j])
                           /\ C3_FirstAt(res.rows[i]) < C3_FirstAt(res.rows[j])
            /\ OthersUnchanged

\* a merge that added a row and dropped a duplicate
C3_Witness ==
    /\ Merged /\ call.before[call.attribute] # None
    /\ ~ConcatRaises(call.before[call.attribute], call.new_df)
    /\ Len(odm[call.attribute].rows) > Len(call.before[call.attribute].rows)
    /\ Len(odm[call.attribute].rows)
          < Len(call.before[call.attribute].rows) + Len(call.new_df.rows)

----------------------------------------------------------------------------
(* __parse_sample: C6, C7. *)

\* __parse_sample has returned; the table it was given is call.before["sample"]
Parsed == call.op = "parse_sample" /\ ~out.raised

\* output row o is source row r at site id: the site, and every other field
\* the canonicalization leaves alone
C6_RowAtSite(o, r, id) ==
    /\ o["Sample.siteID"] = Str(id)
    /\ o["Sample.sampleID"] = r["sampleID"]
    /\ \A c \in {"dateTimeStart", "dateTimeEnd"} :
          ~IsNull(r[c]) => o["Sample." \o c] = r[c]

C6_Exploded ==
    LET src == call.before["sample"]
        res == out.df
    IN  /\ \A k \in DOMAIN src.rows : \A id \in SiteIds(src.rows[k]["siteID"].v) :
              Cardinality({j \in DOMAIN res.rows :
                              C6_RowAtSite(res.rows[j], src.rows[k], id)}) = 1
        /\ \A j \in DOMAIN res.rows :
              /\ ~Contains(res.rows[j]["Sample.siteID"].v, ";")
              /\ \E k \in DOMAIN src.rows : \E id \in SiteIds(src.rows[k]["siteID"].v) :
                    C6_RowAtSite(res.rows[j], src.rows[k], id)

\* C6 (as claimed): on the Sample table the aggregate holds after any loads
\* and merges, __parse_sample yields exactly one row per site id a row lists,
\* the other fields those of the source row; a row of one site yields one
\* row; no siteID of the output contains ";".
C6_OneRowPerSite == Parsed => C6_Exploded

\* what __parse_sample does give: the explosion of a table still labelled
\* 0, 1, 2, ... as a single load leaves it
C6_HoldsOnFreshLabels ==
    (Parsed /\ call.before["sample"].index = RangeIndex(Len(call.before["sample"].rows)))
        => C6_Exploded

Coalesce(x, y) == IF IsNull(x) THEN y ELSE x

\* output row o carries the window of source row r
C7_WindowOf(o, r) ==
    /\ o["Sample.sampleID"] = r["sampleID"]
    /\ o["Sample.dateTimeStart"] = Coalesce(r["dateTimeStart"], r["dateTime"])
    /\ o["Sample.dateTimeEnd"] = Coalesce(r["dateTimeEnd"], r["dateTime"])

\* C7: in every row __parse_sample returns, dateTimeStart is the source row's
\* when it had one and its dateTime otherwise, and the same for dateTimeEnd;
\* a row with only dateTime set has dateTimeStart = dateTimeEnd = dateTime;
\* the output has no dateTime column.
C7_WindowDefaults ==
    Parsed =>
        LET src == call.before["sample"]
            res == out.df
        IN  /\ "Sample.dateTime" \notin SeqToSet(res.cols)
            /\ {"Sample.dateTimeStart", "Sample.dateTimeEnd"} \subseteq SeqToSet(res.cols)
            /\ Len(res.rows) >= Len(src.rows)
            \* the rows of the source stay where they are
            /\ \A k \in DOMAIN src.rows : C7_WindowOf(res.rows[k], src.rows[k])
            \* the rows added are copies of rows of the source
            /\ \A j \in DOMAIN res.rows :
                  /\ DOMAIN res.rows[j] = SeqToSet(res.cols)
                  /\ \E k \in DOMAIN src.rows : C7_WindowOf(res.rows[j], src.rows[k])
            /\ \A k \in DOMAIN src.rows :
                  (IsNull(src.rows[k]["dateTimeStart"]) /\ IsNull(src.rows[k]["dateTimeEnd"])) =>
                      /\ res.rows[k]["Sample.dateTimeStart"] = src.rows[k]["dateTime"]
                      /\ res.rows[k]["Sample.dateTimeEnd"] = src.rows[k]["dateTime"]

\* a grab sample canonicalized along with a row that was exploded
C7_Witness ==
    /\ Parsed
    /\ Len(out.df.rows) > Len(call.before["sample"].rows)
    /\ \E k \in DOMAIN call.before["sample"].rows :
          LET r == call.before["sample"].rows[k]
          IN  /\ IsNull(r["dateTimeStart"]) /\ IsNull(r["dateTimeEnd"])
              /\ ~IsNull(r["dateTime"])
              /\ out.df.rows[k]["Sample.dateTimeStart"] = r["dateTime"]

----------------------------------------------------------------------------
(* __widen: C8. *)

\* __widen has returned; it was given the stored table less its access columns
Widened == call.op = "widen" /\ ~out.raised

C8_Source == remove_access(call.before[call.attribute])
C8_Features == SeqToSet(call.args[1])
C8_Qualifiers == call.args[2]

\* the columns of the source that are neither feature nor qualifier
C8_Kept == SelectSeq(C8_Source.cols,
                     LAMBDA c : c \notin C8_Features \cup SeqToSet(C8_Qualifiers))

\* the qualifier values of a row, in qualifier order
C8_Combination(row) == [q \in DOMAIN C8_Qualifiers |-> row[C8_Qualifiers[q]]]

\* the name the claim gives: the qualifier values, "/" replaced by "-" (and
\* True/False of a qualifier named qualityFlag by quality_issue/no_issue),
\* dot-joined, then the feature
C8_Name(row, feature) ==
    Join([q \in DOMAIN C8_Qualifiers |->
             LET text == Replace(row[C8_Qualifiers[q]].v, "/", "-")
             IN  IF C8_Qualifiers[q] = "qualityFlag"
                 THEN Replace(Replace(text, "True", "quality_issue"), "False", "no_issue")
                 ELSE text] \o <<feature>>, ".")

\* the columns of the output generated for a feature
C8_Generated(feature) ==
    {c \in SeqToSet(out.df.cols) \ SeqToSet(C8_Kept) : EndsWith(c, "." \o feature)}

\* what holds of the shape whatever the rows: the sources are gone, the other
\* columns are kept with their values, the rows are as many and labelled as before
C8_Frame ==
    /\ SeqToSet(out.df.cols) \cap (C8_Features \cup SeqToSet(C8_Qualifiers)) = {}
    /\ SubSeq(out.df.cols, 1, Len(C8_Kept)) = C8_Kept
    /\ \A j, k \in DOMAIN out.df.cols : out.df.cols[j] = out.df.cols[k] => j = k
    /\ Len(out.df.rows) = Len(C8_Source.rows)
    /\ out.df.index = C8_Source.index
    /\ \A k \in DOMAIN out.df.rows :
          /\ DOMAIN out.df.rows[k] = SeqToSet(out.df.cols)
          /\ \A c \in SeqToSet(C8_Kept) : out.df.rows[k][c] = C8_Source.rows[k][c]

\* C8 (as claimed): for each feature exactly one generated column per distinct
\* combination of qualifier values present in the rows, named as C8_Name says;
\* the feature and qualifier columns removed, the others kept, as many rows.
C8_OneColumnPerCombination ==
    Widened =>
        /\ C8_Frame
        /\ \A f \in C8_Features :
              /\ C8_Generated(f) =
                    {C8_Name(C8_Source.rows[k], f) : k \in DOMAIN C8_Source.rows}
              /\ Cardinality(C8_Generated(f)) =
                    Cardinality({C8_Combination(C8_Source.rows[k]) :
                                    k \in DOMAIN C8_Source.rows})

\* C8 (amended): for each feature exactly one generated column per distinct
\* generated NAME: combinations whose texts are the same once "/" is replaced
\* by "-" and the values are dot-joined share one column.
C8_OneColumnPerName ==
    Widened =>
        /\ C8_Frame
        /\ \A f \in C8_Features :
              /\ C8_Generated(f) =
                    {C8_Name(C8_Source.rows[k], f) : k \in DOMAIN C8_Source.rows}
              /\ Cardinality(C8_Generated(f)) <=
                    Cardinality({C8_Combination(C8_Source.rows[k]) :
                                    k \in DOMAIN C8_Source.rows})
        /\ SeqToSet(out.df.cols) =
              SeqToSet(C8_Kept) \cup UNION {C8_Generated(f) : f \in C8_Features}

\* a widening over rows of two combinations, one of them written with "/"
C8_Witness ==
    /\ Widened
    /\ Cardinality({C8_Combination(C8_Source.rows[k]) : k \in DOMAIN C8_Source.rows}) = 2
    /\ Cardinality(C8_Generated("value")) = 2
    /\ \E k \in DOMAIN C8_Source.rows : Contains(C8_Source.rows[k]["unit"].v, "/")

----------------------------------------------------------------------------
(* get_geoJSON: C9. *)

GeoReturned == call.op = "get_geoJSON" /\ ~out.raised

\* C9: the properties of each Feature are exactly the columns of its Polygon
\* row whose name does not contain "wkt", with the row's values; a table of a
\* wkt column and two others gives properties of exactly those two.
C9_PropertiesExcludeWkt ==
    GeoReturned =>
        LET polygon == call.before["polygon"]
            features == out.geo.features
        IN  /\ Len(features) = Len(polygon.rows)
            /\ \A k \in DOMAIN features :
                  /\ DOMAIN features[k].properties =
                        {c \in SeqToSet(polygon.cols) : ~Contains(c, "wkt")}
                  /\ \A c \in DOMAIN features[k].properties :
                        features[k].properties[c] = polygon.rows[k][c]
                  /\ polygon.cols = PolygonCols =>
                        DOMAIN features[k].properties = {"polygonID", "name"}

\* a table with a wkt column, a second column named after it, and two others
C9_Witness ==
    /\ GeoReturned
    /\ "wktSource" \in SeqToSet(call.before["polygon"].cols)
    /\ \E k \in DOMAIN out.geo.features :
          DOMAIN out.geo.features[k].properties = {"polygonID", "name"}

----------------------------------------------------------------------------
(* odm.py: save_to_db and the engine it writes to. *)

\* the table save_to_db is pointed at: Lab, as the schema create_db runs
\* declares it, labID its primary key
TableColumns == <<"labID", "name", "notes">>
PrimaryKey == "labID"

SqlNull == PyNone

\* to_sql(index=False) binds a missing value as NULL
Bind(x) == IF IsNull(x) THEN SqlNull ELSE x

\* df.to_sql(name='myTempTable', if_exists='replace', index=False): the rows
\* of df under its columns, the labels left out
to_sql(df) ==
    [cols |-> df.cols,
     rows |-> [k \in DOMAIN df.rows |-> [c \in SeqToSet(df.cols) |-> Bind(df.rows[k][c])]]]

\* f"{tuple(cols)}".replace("'", "\""): the repr of a tuple, quotes doubled;
\* a tuple of one element is written with a trailing comma
cols_str(cols) ==
    IF Len(cols) = 1 THEN "(\"" \o cols[1] \o "\",)"
    ELSE "(" \o Join([k \in DOMAIN cols |-> "\"" \o cols[k] \o "\""], ", ") \o ")"

\* a column list the engine cannot parse
SqlSyntaxError(column_list) == EndsWith(column_list, ",)") \/ column_list = "()"

\* a plain INSERT in place of the REPLACE of line 677
ReplaceRow_InsertOnly(table, row, cols) ==
    table \o <<[c \in SeqToSet(TableColumns) |->
                  IF c \in SeqToSet(cols) THEN row[c] ELSE SqlNull]>>

\* REPLACE of one row: the rows it conflicts with on the primary key are
\* deleted, then it is inserted, the columns not listed left NULL
ReplaceRow(table, row, cols) ==
    LET new == [c \in SeqToSet(TableColumns) |->
                   IF c \in SeqToSet(cols) THEN row[c] ELSE SqlNull]
    IN  SelectSeq(table, LAMBDA r : r[PrimaryKey] # new[PrimaryKey]) \o <<new>>

\* REPLACE INTO table (cols) SELECT * from myTempTable: row after row
RECURSIVE ReplaceInto(_, _, _)
ReplaceInto(table, temp, k) ==
    IF k > Len(temp.rows) THEN table
    ELSE ReplaceInto(ReplaceRow(table, temp.rows[k], temp.cols), temp, k + 1)

\* save_to_db(df, "Lab", engine) on an engine holding table; staging: what is
\* left of myTempTable
save_to_db(df, table) ==
    LET temp == to_sql(df)
    IN  IF \/ SqlSyntaxError(cols_str(df.cols))
           \/ ~(SeqToSet(df.cols) \subseteq SeqToSet(TableColumns))
        THEN \* cn.execute raises, the transaction is rolled back, the drop not reached
             [raised |-> TRUE, error |-> "OperationalError",
              table |-> table, staging |-> temp]
        ELSE [raised |-> FALSE, error |-> "",
              table |-> ReplaceInto(table, temp, 1), staging |-> None]

LabRow(id, name, notes) ==
    Row(TableColumns, <<Str(id), name, notes>>)

\* what the Lab table may hold before a save: no two rows of one labID
StoredTables ==
    {<<>>,
     <<LabRow("l1", Str("north lab"), Str("old"))>>,
     <<LabRow("l1", Str("north lab"), Str("old")), LabRow("l3", Str("east lab"), SqlNull)>>}

SavedCols == <<"labID", "name">>

SavedRows == {Row(SavedCols, <<Str(id), Str(name)>>) :
                 id \in {"l1", "l2"}, name \in {"north lab", "south lab"}}

\* the frames handed to save_to_db: one or two rows of labID and name, two of
\* them possibly of one labID; all three columns, one value missing; labID
\* alone; a column the table does not have
SavedFrames ==
    {DataFrame(SavedCols, rows) : rows \in SeqsUpTo(SavedRows, 2)}
        \cup {DataFrame(TableColumns, <<LabRow("l1", Str("north lab"), NaN),
                                        LabRow("l2", Str("south lab"), Str("new"))>>),
              DataFrame(<<"labID">>, <<Row(<<"labID">>, <<Str("l1")>>)>>),
              DataFrame(LabColsMail, <<Row(LabColsMail, <<Str("l1"), Str("lab@example.org")>>)>>)}

InitDb ==
    /\ target \in StoredTables
    /\ staging = None
    /\ saved = [df |-> None, before |-> target, n |-> 0, raised |-> FALSE, error |-> ""]
    /\ CastIdle /\ AggregateIdle /\ PipelineIdle

\* store.save_to_db(df, "Lab", engine)
SaveToDb(df) ==
    LET r == save_to_db(df, target)
    IN  /\ saved.n < MaxSaves
        /\ target' = r.table
        /\ staging' = r.staging
        /\ saved' = [df |-> df, before |-> target, n |-> saved.n + 1,
                     raised |-> r.raised, error |-> r.error]
        /\ UNCHANGED <<series, cast, odm, call, out, run>>

NextDb == \E df \in SavedFrames : SaveToDb(df)

SpecDb == InitDb /\ [][NextDb]_vars

----------------------------------------------------------------------------
(* save_to_db: C10. *)

\* save_to_db has returned
SavedToDb == saved.n > 0 /\ ~saved.raised

\* the ids of the rows of the frame saved
C10_Ids == {saved.df.rows[k][PrimaryKey] : k \in DOMAIN saved.df.rows}

\* the rows the target holds under an id
C10_Stored(id) == {j \in DOMAIN target : target[j][PrimaryKey] = id}

\* target row j carries the values of row k of the frame saved
C10_Carries(j, k) ==
    \A c \in SeqToSet(saved.df.cols) : SameCell(target[j][c], saved.df.rows[k][c])

\* the rows stored before whose id is not in the frame are there as they were,
\* and the target holds nothing else
C10_OthersUnchanged ==
    {target[j] : j \in {j \in DOMAIN target : target[j][PrimaryKey] \notin C10_Ids}}
        = {saved.before[j] : j \in {j \in DOMAIN saved.before :
                                       saved.before[j][PrimaryKey] \notin C10_Ids}}

\* C10 (as claimed): after save_to_db returns, for every row of df the target
\* holds exactly one row with that id, carrying that row's values, and the
\* target rows whose id is not in df are unchanged.
C10_EveryRowStored ==
    SavedToDb =>
        /\ \A k \in DOMAIN saved.df.rows :
              /\ Cardinality(C10_Stored(saved.df.rows[k][PrimaryKey])) = 1
              /\ \A j \in C10_Stored(saved.df.rows[k][PrimaryKey]) : C10_Carries(j, k)
        /\ C10_OthersUnchanged

\* C10 (amended): after save_to_db returns, for every id in df the target
\* holds exactly one row with that id, carrying the values of the LAST row of
\* df with that id; the target rows whose id is not in df are unchanged.
C10_LastRowStored ==
    SavedToDb =>
        /\ \A k \in DOMAIN saved.df.rows :
              LET id == saved.df.rows[k][PrimaryKey]
                  last == CHOOSE m \in DOMAIN saved.df.rows :
                             /\ saved.df.rows[m][PrimaryKey] = id
                             /\ \A n \in DOMAIN saved.df.rows :
                                   saved.df.rows[n][PrimaryKey] = id => n <= m
              IN  /\ Cardinality(C10_Stored(id)) = 1
                  /\ \A j \in C10_Stored(id) : C10_Carries(j, last)
        /\ C10_OthersUnchanged

\* a save that replaced a stored row, added one, and left a third alone
C10_Witness ==
    /\ SavedToDb
    /\ \E k \in DOMAIN saved.df.rows : \E j \in DOMAIN saved.before :
          /\ saved.before[j][PrimaryKey] = saved.df.rows[k][PrimaryKey]
          /\ saved.before[j]["name"] # saved.df.rows[k]["name"]
    /\ \E k \in DOMAIN saved.df.rows :
          \A j \in DOMAIN saved.before :
              saved.before[j][PrimaryKey] # saved.df.rows[k][PrimaryKey]
    /\ \E j \in DOMAIN saved.before : saved.before[j][PrimaryKey] \notin C10_Ids

----------------------------------------------------------------------------
(* __widen on merged tables: C16. *)

\* the generated columns of the widened table
C16_GeneratedColumns == SeqToSet(out.df.cols) \ SeqToSet(C8_Kept)

\* a cell a generated column holds when no row wrote to it
C16_Empty(x) == IsNull(x) \/ x = PyFalse

C16_Placed ==
    \A k \in DOMAIN C8_Source.rows :
        /\ \A f \in C8_Features :
              SameCell(out.df.rows[k][C8_Name(C8_Source.rows[k], f)], C8_Source.rows[k][f])
        /\ \A c \in C16_GeneratedColumns :
              \/ \E f \in C8_Features :
                    /\ c = C8_Name(C8_Source.rows[k], f)
                    /\ SameCell(out.df.rows[k][c], C8_Source.rows[k][f])
              \/ C16_Empty(out.df.rows[k][c])

\* C16 (as claimed): for any table the aggregate holds after loads and merges,
\* in the widened output the column named from a row's own qualifier values
\* holds that row's value of the feature, and no generated column of the row
\* holds a value taken from another row.
C16_ValuesStayInTheirRow == Widened => C16_Placed

\* what __widen does give: the placement claimed, on a table whose rows are
\* labelled 0, 1, 2, ... as a single load leaves them
C16_HoldsOnFreshLabels ==
    (Widened /\ C8_Source.index = RangeIndex(Len(C8_Source.rows))) => C16_Placed

----------------------------------------------------------------------------
(* get_geoJSON on merged tables: C17. *)

C17_IdsArePositions ==
    \A k \in DOMAIN out.geo.features : out.geo.features[k].id = k - 1

\* C17 (as claimed): for the Polygon table reached after any loads and merges,
\* get_geoJSON returns one Feature per row, in row order, the k-th (0-based)
\* with id k; the ids are pairwise distinct.
C17_FeatureIdsArePositions ==
    GeoReturned =>
        /\ Len(out.geo.features) = Len(call.before["polygon"].rows)
        /\ \A k \in DOMAIN out.geo.features :
              out.geo.features[k].properties["polygonID"] =
                  call.before["polygon"].rows[k]["polygonID"]
        /\ C17_IdsArePositions
        /\ \A j, k \in DOMAIN out.geo.features :
              out.geo.features[j].id = out.geo.features[k].id => j = k

\* what get_geoJSON does give: one Feature per row, in row order, its id the
\* row's label; the position when the table is labelled 0, 1, 2, ...
C17_IdsAreLabels ==
    GeoReturned =>
        /\ Len(out.geo.features) = Len(call.before["polygon"].rows)
        /\ \A k \in DOMAIN out.geo.features :
              out.geo.features[k].id = call.before["polygon"].index[k]
        /\ call.before["polygon"].index = RangeIndex(Len(call.before["polygon"].rows))
              => C17_IdsArePositions

----------------------------------------------------------------------------
(* runscript.py: the pipeline, lines 30-67.                                *)
(*                                                                         *)
(* run.world is what the run finds on disk, run.events what it has done so *)
(* far, in order.                                                          *)

CsvFiles == {"Sample.csv", "WWMeasure.csv"}
CsvDirs == {"old"}

\* the worlds a run may start in: the config file there or not, csv_folder
\* there or not and holding files and directories, virus_data readable or not
Worlds ==
    {w \in [config : BOOLEAN, csv_folder : BOOLEAN, files : SUBSET CsvFiles,
            dirs : SUBSET CsvDirs, virus_data : BOOLEAN] :
        ~w.csv_folder => (w.files = {} /\ w.dirs = {})}

Event(op, path) == [op |-> op, path |-> path]

\* the run after a statement: what it did, where it goes, the error it died of
Step(event, pc, error) ==
    [run EXCEPT !.events = Append(run.events, event), !.pc = pc, !.error = error]

Others == <<series, cast, odm, call, out, target, staging, saved>>

InitRun ==
    /\ \E w \in Worlds : run = [pc |-> "open", world |-> w, events |-> <<>>, error |-> ""]
    /\ CastIdle /\ AggregateIdle /\ EngineIdle

\* lines 38-40: the config file is opened and parsed
OpenConfig ==
    /\ run.pc = "open"
    /\ run' = IF run.world.config
              THEN Step(Event("open", "config"), "check", "")
              ELSE Step(Event("open", "config"), "failed", "FileNotFoundError")
    /\ UNCHANGED Others

\* the check left out: the run goes on whatever os.path.exists answers
AfterCheck_Unguarded(exists) ==
    [pc |-> "construct", error |-> ""]

\* lines 42-44: raise ValueError unless csv_folder exists
AfterCheck(exists) ==
    IF ~exists THEN [pc |-> "failed", error |-> "ValueError"]
    ELSE [pc |-> "construct", error |-> ""]

CheckCsvFolder ==
    /\ run.pc = "check"
    /\ LET next == AfterCheck(run.world.csv_folder)
       IN  run' = Step(Event("exists", "csv_folder"), next.pc, next.error)
    /\ UNCHANGED Others

\* line 46: store = odm.Odm()
Construct ==
    /\ run.pc = "construct"
    /\ run' = Step(Event("Odm", "store"), "read", "")
    /\ UNCHANGED Others

\* lines 51-54: lab.read(virus_path, ...)
MapperRead ==
    /\ run.pc = "read"
    /\ run' = IF run.world.virus_data
              THEN Step(Event("read", "virus_data"), "append", "")
              ELSE Step(Event("read", "virus_data"), "failed", "FileNotFoundError")
    /\ UNCHANGED Others

\* line 55: store.append_from(lab)
AppendFrom ==
    /\ run.pc = "append"
    /\ run' = Step(Event("append_from", "store"), "remove", "")
    /\ UNCHANGED Others

\* lines 60-61: os.unlink of a file of csv_folder
Unlink(f) ==
    /\ run.pc = "remove"
    /\ f \in run.world.files
    /\ run' = [Step(Event("unlink", f), "remove", "")
                  EXCEPT !.world.files = run.world.files \ {f}]
    /\ UNCHANGED Others

\* lines 62-63: shutil.rmtree of a directory of csv_folder, the files gone
Rmtree(d) ==
    /\ run.pc = "remove"
    /\ run.world.files = {}
    /\ d \in run.world.dirs
    /\ run' = [Step(Event("rmtree", d), "remove", "")
                  EXCEPT !.world.dirs = run.world.dirs \ {d}]
    /\ UNCHANGED Others

\* line 66: store.to_csv(config.csv_folder)
ToCsv ==
    /\ run.pc = "remove"
    /\ run.world.files = {} /\ run.world.dirs = {}
    /\ run' = [Step(Event("to_csv", "csv_folder"), "done", "")
                  EXCEPT !.world.files = CsvFiles]
    /\ UNCHANGED Others

NextRun ==
    \/ OpenConfig
    \/ CheckCsvFolder
    \/ Construct
    \/ MapperRead
    \/ AppendFrom
    \/ \E f \in CsvFiles : Unlink(f)
    \/ \E d \in CsvDirs : Rmtree(d)
    \/ ToCsv

SpecRun == InitRun /\ [][NextRun]_vars

----------------------------------------------------------------------------
(* The pipeline: C12. *)

\* what the claim orders after the check: the aggregate's construction, the
\* mapper's read, a deletion
C12_Guarded == {"Odm", "read", "unlink", "rmtree"}

\* C12: when csv_folder does not exist the run fails with the configuration
\* error (ValueError) with no aggregate constructed, no mapper read and no
\* deletion done; in every run no construction, read or deletion comes before
\* the check of csv_folder.
C12_CheckComesFirst ==
    /\ \A i \in DOMAIN run.events :
          run.events[i].op \in C12_Guarded =>
              \E j \in 1..(i - 1) : run.events[j] = Event("exists", "csv_folder")
    /\ (run.world.config /\ ~run.world.csv_folder /\ run.pc \notin {"open", "check"}) =>
          /\ run.pc = "failed" /\ run.error = "ValueError"
          /\ \A i \in DOMAIN run.events : run.events[i].op \notin C12_Guarded

\* a run that died at the check of a missing csv_folder
C12_Witness ==
    /\ ~run.world.csv_folder
    /\ run.pc = "failed" /\ run.error = "ValueError"
    /\ run.events = <<Event("open", "config"), Event("exists", "csv_folder")>>

----------------------------------------------------------------------------
(* odm.py: the loaders and append_odm. *)

\* A statement's value is computed once, where the statement stands, and
\* named: CHOOSE y \in {e : v \in {x}} : TRUE is e with v naming the value of x.

\* lines 52-93
conversion_dict ==
    [ww_measure   |-> [odm_name |-> "WWMeasure",   excel_name |-> "WWMeasure"],
     site_measure |-> [odm_name |-> "SiteMeasure", excel_name |-> "SiteMeasure"],
     sample       |-> [odm_name |-> "Sample",      excel_name |-> "Sample"],
     site         |-> [odm_name |-> "Site",        excel_name |-> "Site"],
     polygon      |-> [odm_name |-> "Polygon",     excel_name |-> "Polygon"],
     cphd         |-> [odm_name |-> "CovidPublicHealthData", excel_name |-> "CPHD"],
     reporter     |-> [odm_name |-> "Reporter",    excel_name |-> "Reporter"],
     lab          |-> [odm_name |-> "Lab",         excel_name |-> "Lab"],
     assay_method |-> [odm_name |-> "AssayMethod", excel_name |-> "AssayMethod"],
     instrument   |-> [odm_name |-> "Instrument",  excel_name |-> "Instrument"]]

\* get_attribute_from_name(name): the attribute a sheet or table name stands
\* for, None for a name of no attribute
get_attribute_from_name(name) ==
    LET found == {a \in DOMAIN conversion_dict :
                     name \in {conversion_dict[a].odm_name, conversion_dict[a].excel_name}}
    IN  IF found = {} THEN "None" ELSE CHOOSE a \in found : TRUE

\* df.rename(columns={old: new})
rename(df, old, new) ==
    LET to(c) == IF c = old THEN new ELSE c
    IN  [cols  |-> [k \in DOMAIN df.cols |-> to(df.cols[k])],
         index |-> df.index,
         rows  |-> [k \in DOMAIN df.rows |->
                      [c \in {to(d) : d \in SeqToSet(df.cols)} |->
                          df.rows[k][IF c = new /\ old \in SeqToSet(df.cols) THEN old ELSE c]]]]

\* the column of df named c, as parse_types is handed it
Column(df, c) == [name |-> c, vals |-> [k \in DOMAIN df.rows |-> df.rows[k][c]]]

\* df.apply(lambda x: parse_types(odm_name, x), axis=0): every column cast;
\* the first cast that raises ends the call
type_cast(odm_name, df) ==
    CHOOSE type_cast_df \in {
        IF \E c \in SeqToSet(df.cols) : casted[c].raised
        THEN Failed(casted[CHOOSE k \in SeqToSet(df.cols) : casted[k].raised].error)
        ELSE Returned([cols  |-> df.cols,
                       index |-> df.index,
                       rows  |-> [k \in DOMAIN df.rows |->
                                    [c \in SeqToSet(df.cols) |-> casted[c].vals[k]]]])
        : casted \in {[c \in SeqToSet(df.cols) |->
                          parse_types(odm_name, Column(df, c))]}} : TRUE

Loaded(self) == [raised |-> FALSE, error |-> "", odm |-> self]
LoadFailed(self, what) == [raised |-> TRUE, error |-> what, odm |-> self]

\* lines 410-417: the legacy name of the assay column gives way to assayID
Normalize(sheet, df) ==
    IF sheet = "WWMeasure" /\ "assayMethodID" \in SeqToSet(df.cols)
    THEN rename(df, "assayMethodID", "assayID")
    ELSE df

\* lines 404-422 from sheet k on
RECURSIVE LoadSheets(_, _, _, _)
LoadSheets(self, xls, sheet_names, k) ==
    IF k > Len(sheet_names) THEN Loaded(self)
    ELSE LET sheet == sheet_names[k]
             attribute == get_attribute_from_name(sheet)
             df == Normalize(sheet, xls[sheet])
         IN  CHOOSE loaded \in {
                 IF type_cast_df.raised THEN LoadFailed(self, type_cast_df.error)
                 ELSE CHOOSE rest \in {
                          LoadSheets(added, xls, sheet_names, k + 1)
                          : added \in {add_to_attr(self, attribute, type_cast_df.df)}} : TRUE
                 : type_cast_df \in {type_cast(conversion_dict[attribute].odm_name, df)}}
                 : TRUE

\* load_from_excel(filepath, sheet_names), xls the sheets of the workbook
load_from_excel(self, xls, sheet_names) ==
    IF ~(SeqToSet(sheet_names) \subseteq DOMAIN xls)
    THEN LoadFailed(self, "ValueError")      \* read_excel, line 393
    ELSE IF \E k \in DOMAIN sheet_names : get_attribute_from_name(sheet_names[k]) = "None"
    THEN LoadFailed(self, "KeyError")        \* conversion_dict[None], line 400
    ELSE LoadSheets(self, xls, sheet_names, 1)

\* lines 453-462 from table k on
RECURSIVE LoadTables(_, _, _, _)
LoadTables(self, db, table_names, k) ==
    IF k > Len(table_names) THEN Loaded(self)
    ELSE LET table == table_names[k]
             attribute == get_attribute_from_name(table)
         IN  IF table \notin DOMAIN db
             THEN LoadFailed(self, "OperationalError")    \* read_sql, line 457
             ELSE CHOOSE loaded \in {
                      IF type_cast_df.raised THEN LoadFailed(self, type_cast_df.error)
                      ELSE IF attribute = "None"
                      THEN LoadFailed(self, "TypeError")  \* getattr(self, None)
                      ELSE CHOOSE rest \in {
                               LoadTables(added, db, table_names, k + 1)
                               : added \in {add_to_attr(self, attribute, type_cast_df.df)}}
                               : TRUE
                      : type_cast_df \in {type_cast(table, db[table])}} : TRUE

\* load_from_db(cnxn_str, table_names), db the tables behind cnxn_str
load_from_db(self, db, table_names) == LoadTables(self, db, table_names, 1)

\* append_odm(other_odm): add_to_attr, attribute by attribute
append_odm(self, other_odm) ==
    [attribute \in DOMAIN self |->
        add_to_attr(self, attribute, other_odm[attribute])[attribute]]

----------------------------------------------------------------------------
(* odm.py: combine_per_sample, lines 495-659, and what it calls. *)

\* the characters of the keys the tables are grouped and joined on, in the
\* order Python and SQLite compare them
Alphabet == " -./0123456789:;ABCDEFGHIJKLMNOPQRSTUVWXYZ_abcdefghijklmnopqrstuvwxyz"

Rank(c) == CHOOSE i \in 1..Len(Alphabet) : Char(Alphabet, i) = c

\* a < b, for two texts
RECURSIVE TextLess(_, _)
TextLess(a, b) ==
    IF b = "" THEN FALSE
    ELSE IF a = "" THEN TRUE
    ELSE IF Char(a, 1) = Char(b, 1)
         THEN TextLess(SubSeq(a, 2, Len(a)), SubSeq(b, 2, Len(b)))
    ELSE Rank(Char(a, 1)) < Rank(Char(b, 1))

\* seqs[1] \o seqs[2] \o ...
RECURSIVE Concat(_)
Concat(seqs) == IF Len(seqs) = 0 THEN <<>> ELSE Head(seqs) \o Concat(Tail(seqs))

\* utilities.reduce_by_type on the values a column has in one group: the
\* first that is not missing
reduce_by_type(values) ==
    LET present == SelectSeq(values, LAMBDA x : ~IsNull(x))
    IN  IF Len(present) = 0 THEN NaN ELSE present[1]

\* the keys groupby(key) forms groups of: the values of the column that are
\* not missing, each once, sorted
GroupKeys(df, key) ==
    LET vals == [k \in DOMAIN df.rows |-> df.rows[k][key]]
        firsts == {k \in DOMAIN vals :
                      ~IsNull(vals[k]) /\ \A j \in 1..(k - 1) : vals[j] # vals[k]}
    IN  SortSeq(Take(vals, firsts), LAMBDA a, b : TextLess(a.v, b.v))

\* df.groupby(key).agg(utilities.reduce_by_type): one row per key, labelled
\* by it, the other columns reduced
groupby_agg(df, key) ==
    LET keys == GroupKeys(df, key)
        others == SelectSeq(df.cols, LAMBDA c : c # key)
        group(g) == SelectSeq(df.rows, LAMBDA r : r[key] = g)
    IN  [cols  |-> others,
         index |-> keys,
         rows  |-> [i \in DOMAIN keys |->
                      [c \in SeqToSet(others) |->
                          reduce_by_type([k \in DOMAIN group(keys[i]) |->
                                             group(keys[i])[k][c]])]]]

\* df.reset_index(): the labels become the first column, named name
reset_index(df, name) ==
    DataFrame(<<name>> \o df.cols,
              [k \in DOMAIN df.rows |-> (name :> df.index[k]) @@ df.rows[k]])

\* pd.merge(left, right, how="left", left_on=..., right_on=...), right_keys
\* the key of each row of right: every row of left, once per row of right of
\* its key, or once with the columns of right missing
merge_left(left, right, left_on, right_keys) ==
    LET missing == [c \in SeqToSet(right.cols) |-> NaN]
        joined(i) ==
            LET m == SelectSeq([j \in DOMAIN right.rows |-> j],
                               LAMBDA j : SameCell(right_keys[j], left.rows[i][left_on]))
            IN  IF Len(m) = 0 THEN <<left.rows[i] @@ missing>>
                ELSE [n \in DOMAIN m |-> left.rows[i] @@ right.rows[m[n]]]
    IN  DataFrame(left.cols \o right.cols, Concat([i \in DOMAIN left.rows |-> joined(i)]))

\* a value as sqlite3 holds it and read_sql_query hands it back
SqlValue(x) ==
    CASE IsNull(x)           -> PyNone
      [] x.t = "Timestamp"   -> Str(x.v \o " 00:00:00")
      [] x.t = "bool"        -> [t |-> "int", v |-> IF x = PyTrue THEN "1" ELSE "0"]
      [] OTHER               -> x

\* x between lo and hi, in SQL: not so when one of them is NULL
Between(x, lo, hi) ==
    /\ x.t = "str" /\ lo.t = "str" /\ hi.t = "str"
    /\ ~TextLess(x.v, lo.v)
    /\ ~TextLess(hi.v, x.v)

\* lines 576-588: both tables written to an in-memory database and read back
\* left-joined on the measure's dateTime lying in the sample's window
combine_sample_site_measure(sample, site_measure) ==
    IF \/ ~({"Sample.dateTimeStart", "Sample.dateTimeEnd"} \subseteq SeqToSet(sample.cols))
       \/ "SiteMeasure.dateTime" \notin SeqToSet(site_measure.cols)
    THEN Failed("OperationalError")
    ELSE
    LET stored(df) == [k \in DOMAIN df.rows |->
                          [c \in SeqToSet(df.cols) |-> SqlValue(df.rows[k][c])]]
        left == stored(sample)
        right == stored(site_measure)
        null == [c \in SeqToSet(site_measure.cols) |-> PyNone]
        joined(i) ==
            LET m == SelectSeq([j \in DOMAIN right |-> j],
                               LAMBDA j : Between(right[j]["SiteMeasure.dateTime"],
                                                  left[i]["Sample.dateTimeStart"],
                                                  left[i]["Sample.dateTimeEnd"]))
            IN  IF Len(m) = 0 THEN <<left[i] @@ null>>
                ELSE [n \in DOMAIN m |-> left[i] @@ right[m[n]]]
    IN  Returned(DataFrame(sample.cols \o site_measure.cols,
                           Concat([i \in DOMAIN left |-> joined(i)])))

\* merged.set_index(key): the column becomes the labels
set_index(df, key) ==
    [cols  |-> SelectSeq(df.cols, LAMBDA c : c # key),
     index |-> [k \in DOMAIN df.rows |-> df.rows[k][key]],
     rows  |-> [k \in DOMAIN df.rows |->
                  [c \in SeqToSet(df.cols) \ {key} |-> df.rows[k][c]]]]


\* group by key, reset the index, prefix the names (lines 268-271, 334-336)
GroupedView(df, key, prefix) ==
    IF key \notin SeqToSet(df.cols) THEN Failed("KeyError")
    ELSE Returned(add_prefix(reset_index(groupby_agg(df, key), key), prefix))

\* __parse_ww_measure, lines 209-247
parse_ww_measure(ww_measure) ==
    IF ww_measure = None THEN Failed("AttributeError")
    ELSE LET assay_col == IF "assayID" \in SeqToSet(ww_measure.cols)
                          THEN "assayID" ELSE "assayMethodID"
         IN  CHOOSE parsed \in {
                 IF widened.raised THEN widened
                 ELSE Returned(add_prefix(widened.df, "WWMeasure."))
                 : widened \in {widen(remove_access(ww_measure),
                                      <<"value", "analysisDate", "reportDate", "notes",
                                        "qualityFlag", assay_col>>,
                                      <<"fractionAnalyzed", "type", "unit", "aggregation">>)}}
                 : TRUE

\* __parse_site_measure, lines 249-272
parse_site_measure(site_measure) ==
    IF site_measure = None THEN Failed("AttributeError")
    ELSE CHOOSE parsed \in {
             IF widened.raised THEN widened
             ELSE GroupedView(widened.df, "dateTime", "SiteMeasure.")
             : widened \in {widen(remove_access(site_measure),
                                  SiteMeasureFeatures, SiteMeasureQualifiers)}} : TRUE

\* __parse_site, lines 307-310
parse_site(site) ==
    IF site = None THEN Failed("AttributeError")
    ELSE Returned(add_prefix(site, "Site."))

\* __parse_cphd, lines 317-337
parse_cphd(cphd) ==
    IF cphd = None THEN Failed("AttributeError")
    ELSE CHOOSE parsed \in {
             IF widened.raised THEN widened
             ELSE GroupedView(widened.df, "cphdID", "CPHD.")
             : widened \in {widen(remove_access(cphd), <<"value", "date", "notes">>,
                                  <<"type", "dateType">>)}} : TRUE

\* lines 525-527
agg_ww_measure_per_sample(ww) ==
    IF "WWMeasure.sampleID" \notin SeqToSet(ww.cols) THEN Failed("KeyError")
    ELSE Returned(groupby_agg(ww, "WWMeasure.sampleID"))

\* lines 547-551: the key of ww is its index, which the merge does not hand
\* on as a column
combine_ww_measure_and_sample(ww, sample) ==
    IF "Sample.sampleID" \notin SeqToSet(sample.cols) THEN Failed("KeyError")
    ELSE Returned(merge_left(sample, ww, "Sample.sampleID", ww.index))

\* lines 608-613
combine_site_sample(sample, site) ==
    IF "Sample.siteID" \notin SeqToSet(sample.cols) \/ "Site.siteID" \notin SeqToSet(site.cols)
    THEN Failed("KeyError")
    ELSE Returned(merge_left(sample, site, "Sample.siteID",
                             [k \in DOMAIN site.rows |-> site.rows[k]["Site.siteID"]]))

\* line 638: the table of the enclosing scope, as it stands
combine_cphd_by_geo(merged, cphd) == merged

\* lines 642-659.  The result, and the aggregate afterwards: self.sample is
\* what __parse_sample leaves of it.  The names are bound at the foot, the
\* first statement last; a raise ends the call where it happens.
combine_per_sample(self, ord, chained_raises) ==
    CHOOSE r1 \in {
    IF ww_parsed.raised THEN [result |-> ww_parsed, stored |-> self] ELSE
    CHOOSE r2 \in {
    IF ww_measure.raised THEN [result |-> ww_measure, stored |-> self] ELSE
    CHOOSE r3 \in {
    LET sample == parsed.result
        after == [self EXCEPT !["sample"] = parsed.stored]
    IN
    IF sample.raised THEN [result |-> sample, stored |-> after] ELSE
    CHOOSE r4 \in {
    IF merged1.raised THEN [result |-> merged1, stored |-> after] ELSE
    CHOOSE r5 \in {
    IF site_measure.raised THEN [result |-> site_measure, stored |-> after] ELSE
    CHOOSE r6 \in {
    IF merged2.raised THEN [result |-> merged2, stored |-> after] ELSE
    CHOOSE r7 \in {
    IF site.raised THEN [result |-> site, stored |-> after] ELSE
    CHOOSE r8 \in {
    IF merged3.raised THEN [result |-> merged3, stored |-> after] ELSE
    CHOOSE r9 \in {
    IF cphd.raised THEN [result |-> cphd, stored |-> after] ELSE
    [result |-> Returned(set_index(combine_cphd_by_geo(merged3.df, cphd.df),
                                   "Sample.sampleID")),
     stored |-> after]
    : cphd         \in {parse_cphd(self["cphd"])}} : TRUE
    : merged3      \in {combine_site_sample(merged2.df, site.df)}} : TRUE
    : site         \in {parse_site(self["site"])}} : TRUE
    : merged2      \in {combine_sample_site_measure(merged1.df, site_measure.df)}} : TRUE
    : site_measure \in {parse_site_measure(self["site_measure"])}} : TRUE
    : merged1      \in {combine_ww_measure_and_sample(ww_measure.df, sample.df)}} : TRUE
    : parsed       \in {parse_sample(self["sample"], ord, chained_raises)}} : TRUE
    : ww_measure   \in {agg_ww_measure_per_sample(ww_parsed.df)}} : TRUE
    : ww_parsed    \in {parse_ww_measure(self["ww_measure"])}} : TRUE

----------------------------------------------------------------------------
(* odm.py: OdmEncoder and decode_object, lines 690-722. *)

JNull      == [j |-> "null"]
JString(s) == [j |-> "string", v |-> s]
JNumber(v) == [j |-> "number", v |-> v]
JBool(v)   == [j |-> "bool", v |-> v]
JArray     == [j |-> "array"]

\* a cell as to_json(date_format='iso') writes it: a timestamp as ISO text
\* to the millisecond, a missing value as null
to_json_value(x) ==
    CASE IsNull(x)                -> JNull
      [] x.t = "Timestamp"        -> JString(x.v \o "T00:00:00.000Z")
      [] x.t = "str"              -> JString(x.v)
      [] x.t \in {"float", "int"} -> JNumber(x.v)
      [] x.t = "bool"             -> JBool(x.v)
      [] OTHER                    -> JArray

\* o.to_json(date_format='iso', orient='split')
to_json(df) ==
    [columns |-> df.cols,
     index   |-> df.index,
     data    |-> [k \in DOMAIN df.rows |->
                    [c \in SeqToSet(df.cols) |-> to_json_value(df.rows[k][c])]]]

\* OdmEncoder.default on the aggregate and then on each table of its __dict__
OdmEncoder(o) ==
    [__Odm__ |-> [a \in DOMAIN o |->
                     IF o[a] = None THEN JNull ELSE [__DataFrame__ |-> to_json(o[a])]]]

\* a JSON value as json.loads hands it to the frame
from_json_value(j) ==
    CASE j.j = "null"   -> PyNone
      [] j.j = "string" -> Str(j.v)
      [] j.j = "number" -> IF Contains(j.v, ".") THEN Float(j.v) ELSE [t |-> "int", v |-> j.v]
      [] j.j = "bool"   -> [t |-> "bool", v |-> j.v]
      [] OTHER          -> PyList

\* the labels read_json takes for dates; whether "datetime" is one of them
\* depends on the pandas at hand
IsDateLabel(col, datetime_too) ==
    LET col_lower == Lower(col)
    IN  \/ EndsWith(col_lower, "_at") \/ EndsWith(col_lower, "_time")
        \/ StartsWith(col_lower, "timestamp")
        \/ col_lower \in {"modified", "date"}
        \/ datetime_too /\ col_lower = "datetime"

\* ISO text of read_json's making, as the timestamp it parses to
IsIsoText(x) == x.t = "str" /\ Len(x.v) = 24 /\ EndsWith(x.v, "T00:00:00.000Z")
               /\ IsDateLiteral(SubSeq(x.v, 1, 10))

\* a float that is a whole number, and the integer it is
IsWhole(x) == x.t = "float" /\ EndsWith(x.v, ".0") /\ AllDigits(SubSeq(x.v, 1, Len(x.v) - 2))
WholeOf(x) == [t |-> "int", v |-> SubSeq(x.v, 1, Len(x.v) - 2)]

\* read_json's conversion of one column: a column of a date label parsed to
\* timestamps when all of it parses; a column of numeric text turned into
\* numbers; a column of whole floats turned into integers
ConvertColumn(col, vals, datetime_too) ==
    LET present == SelectSeq(vals, LAMBDA x : ~IsNull(x))
        all(P(_)) == Len(present) > 0 /\ \A k \in DOMAIN present : P(present[k])
    IN  IF IsDateLabel(col, datetime_too) /\ all(IsIsoText)
        THEN [k \in DOMAIN vals |->
                 IF IsNull(vals[k]) THEN NaT ELSE Stamp(SubSeq(vals[k].v, 1, 10))]
        ELSE IF all(LAMBDA x : x.t = "str" /\ IsFloatLiteral(x.v))
        THEN [k \in DOMAIN vals |->
                 IF IsNull(vals[k]) THEN NaN
                 ELSE IF Len(present) = Len(vals) /\ all(LAMBDA x : IsIntLiteral(x.v))
                      THEN [t |-> "int", v |-> Strip(vals[k].v)]
                      ELSE Float(Strip(vals[k].v))]
        ELSE IF Len(present) = Len(vals) /\ all(IsWhole)
        THEN [k \in DOMAIN vals |-> WholeOf(vals[k])]
        ELSE IF all(LAMBDA x : x.t \in {"float", "int"})
        THEN [k \in DOMAIN vals |-> IF IsNull(vals[k]) THEN NaN ELSE vals[k]]
        ELSE vals

\* pd.read_json(text, orient='split')
read_json(split, datetime_too) ==
    LET raw(c) == [k \in DOMAIN split.data |-> from_json_value(split.data[k][c])]
        converted == [c \in SeqToSet(split.columns) |-> ConvertColumn(c, raw(c), datetime_too)]
    IN  [cols  |-> split.columns,
         index |-> split.index,
         rows  |-> [k \in DOMAIN split.data |->
                      [c \in SeqToSet(split.columns) |-> converted[c][k]]]]

\* decode_object, as json.loads applies it from the inside out: each table,
\* then the aggregate, whose __dict__ takes the decoded values
decode_object(o, datetime_too) ==
    [a \in DOMAIN o.__Odm__ |->
        IF "__DataFrame__" \in DOMAIN o.__Odm__[a]
        THEN read_json(o.__Odm__[a].__DataFrame__, datetime_too)
        ELSE None]

----------------------------------------------------------------------------
(* The aggregate loaded, combined and serialized.  The tables of whole     *)
(* aggregates are as a mapper hands them over, typed; the sheets and       *)
(* tables of the loaders are as read, text.                                *)

WWCols == <<"wwMeasureID", "sampleID", "assayID", "fractionAnalyzed", "type", "unit",
            "aggregation", "value", "analysisDate", "reportDate", "notes", "qualityFlag">>

WWMeasureRow(id, sampleID, type, value) ==
    Row(WWCols, <<Str(id), Str(sampleID), Str("a1"), Str("liquid"), Str(type), Str("gc/ml"),
                  Str("single"), Float(value), Stamp("2021-01-06"), Stamp("2021-01-07"),
                  Str(""), PyFalse>>)

SiteCols == <<"siteID", "name">>
SiteTable == DataFrame(SiteCols, <<Row(SiteCols, <<Str("A"), Str("east plant")>>),
                                   Row(SiteCols, <<Str("B"), Str("west plant")>>)>>)

CphdCols == <<"cphdID", "type", "dateType", "value", "date", "notes">>
CphdTable == DataFrame(CphdCols, <<Row(CphdCols, <<Str("c1"), Str("conf"), Str("report"),
                                                   Float("12.0"), Stamp("2021-01-05"),
                                                   Str("")>>)>>)

\* a composite sample of one site over two days
SampleWindow ==
    Row(SampleCols, <<Str("s4"), Str("A"), NaT, Stamp("2021-01-05"), Stamp("2021-01-06")>>)

\* an aggregate with the five tables combine_per_sample reads
WholeOdm(samples, measures) ==
    [a \in Attributes |->
        CASE a = "sample"       -> DataFrame(SampleCols, samples)
          [] a = "ww_measure"   -> DataFrame(WWCols, <<WWMeasureRow("w1", "s1", "covN1", "1.5"),
                                                       WWMeasureRow("w2", "s1", "covN2", "2.5"),
                                                       WWMeasureRow("w3", "s2", "covN1", "3.0")>>)
          [] a = "site_measure" -> DataFrame(SiteMeasureCols, measures)
          [] a = "site"         -> SiteTable
          [] a = "cphd"         -> CphdTable
          [] OTHER              -> None]

OtherOdms ==
    { \* a grab sample, and a sample two sites share
      WholeOdm(<<SampleGrab, SampleShared>>, <<MeasureFlow>>),
      \* a sample whose window holds the measures of two days
      WholeOdm(<<SampleWindow>>, <<MeasureFlow, MeasureTemp>>),
      \* an aggregate of a mapper that read no samples
      [a \in Attributes |-> IF a = "lab"
                            THEN DataFrame(LabCols, <<Row(LabCols, <<Str("l1"), Str("north lab")>>),
                                                      Row(LabCols, <<Str("l1"), Str("north lab")>>)>>)
                            ELSE None] }

WWSheetCols == <<"sampleID", "assayID", "value", "qualityFlag">>
WWSheetColsLegacy == <<"sampleID", "assayMethodID", "value", "qualityFlag">>
WWSheetColsIndex == <<"sampleID", "assayID", "index">>

\* a WWMeasure sheet or table as read
WWSheet(cols, last) ==
    DataFrame(cols, <<[c \in SeqToSet(cols) |->
                          CASE c = "sampleID" -> Str("S1")
                            [] c \in {"assayID", "assayMethodID"} -> Str("A1")
                            [] c = "value" -> Str("1.5")
                            [] OTHER -> Str(last)]>>)

\* the workbooks and the sheets asked of them
Workbooks ==
    { <<("WWMeasure" :> WWSheet(WWSheetCols, "n/a")), <<"WWMeasure">>>>,
      <<("WWMeasure" :> WWSheet(WWSheetColsLegacy, "yes")), <<"WWMeasure">>>>,
      \* an integer column that does not parse
      <<("WWMeasure" :> WWSheet(WWSheetColsIndex, "abc")), <<"WWMeasure">>>> }

\* the databases and the tables asked of them
Databases ==
    { <<("WWMeasure" :> WWSheet(WWSheetCols, "n/a")), <<"WWMeasure">>>>,
      <<("WWMeasure" :> WWSheet(WWSheetColsLegacy, "yes")), <<"WWMeasure">>>> }

StoreInputs == {"lab"} \X {df \in LabTables : df.cols # LabColsMail}

\* store.append_odm(other_odm)
AppendOdm(other_odm) ==
    /\ call.merges < MaxMerges
    /\ call' = [op |-> "append_odm", attribute |-> "", new_df |-> None,
                args |-> <<other_odm>>, before |-> odm, merges |-> call.merges + 1]
    /\ odm' = append_odm(odm, other_odm)
    /\ out' = NoResult
    /\ UNCHANGED <<series, cast, target, staging, saved, run>>

\* store.load_from_excel(filepath, sheet_names)
LoadFromExcel(xls, sheet_names) ==
    /\ call.merges < MaxMerges
    /\ \E r \in {load_from_excel(odm, xls, sheet_names)} :
        /\ call' = [op |-> "load_from_excel", attribute |-> "", new_df |-> None,
                    args |-> <<xls, sheet_names>>, before |-> odm,
                    merges |-> call.merges + 1]
        /\ odm' = r.odm
        /\ out' = [raised |-> r.raised, error |-> r.error]
        /\ UNCHANGED <<series, cast, target, staging, saved, run>>

\* store.load_from_db(cnxn_str, table_names)
LoadFromDb(db, table_names) ==
    /\ call.merges < MaxMerges
    /\ \E r \in {load_from_db(odm, db, table_names)} :
        /\ call' = [op |-> "load_from_db", attribute |-> "", new_df |-> None,
                    args |-> <<db, table_names>>, before |-> odm,
                    merges |-> call.merges + 1]
        /\ odm' = r.odm
        /\ out' = [raised |-> r.raised, error |-> r.error]
        /\ UNCHANGED <<series, cast, target, staging, saved, run>>

\* the ids of the fields of sample that name several sites
SharedSiteIds(sample) ==
    UNION {IF sample.rows[k]["siteID"].t = "str" /\ Contains(sample.rows[k]["siteID"].v, ";")
           THEN SiteIds(sample.rows[k]["siteID"].v) ELSE {} : k \in DOMAIN sample.rows}

\* what the run leaves open where line 290 is reached: the order the set of
\* ids is popped in, and whether the chained assignment is detected
CombineChoices ==
    IF odm["sample"] = None \/ "siteID" \notin SeqToSet(odm["sample"].cols)
    THEN {<<<<>>, FALSE>>}
    ELSE IF SharedSiteIds(odm["sample"]) = {} THEN {<<<<>>, FALSE>>}
    ELSE Orders(SharedSiteIds(odm["sample"])) \X BOOLEAN

\* store.combine_per_sample()
CombinePerSample(ord, chained_raises) ==
    /\ (call.op # "combine_per_sample" \/ odm # call.before)
    /\ \E r \in {combine_per_sample(odm, ord, chained_raises)} :
        /\ call' = [op |-> "combine_per_sample", attribute |-> "", new_df |-> None,
                    args |-> <<ord, chained_raises>>, before |-> odm,
                    merges |-> call.merges]
        /\ odm' = r.stored
        /\ out' = r.result
        /\ UNCHANGED <<series, cast, target, staging, saved, run>>

\* json.loads(json.dumps(store, cls=OdmEncoder), object_hook=decode_object)
RoundTrip(datetime_too) ==
    /\ call.op # "json"
    /\ call' = [op |-> "json", attribute |-> "", new_df |-> None,
                args |-> <<datetime_too>>, before |-> odm, merges |-> call.merges]
    /\ out' = [raised |-> FALSE, error |-> "",
               odm |-> decode_object(OdmEncoder(odm), datetime_too)]
    /\ UNCHANGED <<odm, series, cast, target, staging, saved, run>>

NextStore ==
    \/ \E in \in StoreInputs : AddToAttr(in[1], in[2])
    \/ \E other_odm \in OtherOdms : AppendOdm(other_odm)
    \/ \E book \in Workbooks : LoadFromExcel(book[1], book[2])
    \/ \E base \in Databases : LoadFromDb(base[1], base[2])
    \/ \E choice \in CombineChoices : CombinePerSample(choice[1], choice[2])
    \/ \E datetime_too \in BOOLEAN : RoundTrip(datetime_too)

SpecStore == Init /\ [][NextStore]_vars

----------------------------------------------------------------------------
(* The assay column after a load. *)

\* a load that went through, of a WWMeasure sheet or table that names its
\* assay column assayID or assayMethodID
C13_Loaded ==
    /\ call.op \in {"load_from_excel", "load_from_db"}
    /\ ~out.raised
    /\ "WWMeasure" \in SeqToSet(call.args[2])
    /\ {"assayID", "assayMethodID"} \cap SeqToSet(call.args[1]["WWMeasure"].cols) # {}

C13_Normalized ==
    /\ odm["ww_measure"] # None
    /\ "assayID" \in SeqToSet(odm["ww_measure"].cols)
    /\ "assayMethodID" \notin SeqToSet(odm["ww_measure"].cols)

\* C13: after any load of wastewater measures, by load_from_excel or by
\* load_from_db, from a source naming the assay column assayID or
\* assayMethodID, ww_measure has the column assayID and no column
\* assayMethodID.
C13_AssayColumnIsAssayID == C13_Loaded => C13_Normalized

\* What does hold: load_from_excel into an aggregate that has no measures
\* yet leaves the column named assayID.
C13_ExcelNormalizes ==
    (C13_Loaded /\ call.op = "load_from_excel" /\ call.before["ww_measure"] = None)
        => C13_Normalized

\* load_from_db has just stored a table whose assay column is assayMethodID
C13_DbKeepsLegacyName ==
    /\ C13_Loaded
    /\ call.op = "load_from_db"
    /\ call.before["ww_measure"] = None
    /\ "assayMethodID" \in SeqToSet(odm["ww_measure"].cols)

----------------------------------------------------------------------------
(* The rows of the table combine_per_sample returns. *)

\* combine_per_sample has just returned a table
Combined == call.op = "combine_per_sample" /\ ~out.raised

\* the rows of the result labelled by the sample id
C14_RowsOf(sampleID) == {k \in DOMAIN out.df.index : out.df.index[k] = sampleID}

C14_SampleIDs ==
    {call.before["sample"].rows[k]["sampleID"] : k \in DOMAIN call.before["sample"].rows}

\* C14: where combine_per_sample succeeds, each sampleID of the Sample
\* table labels exactly one row of the result, samples naming several sites
\* and samples whose window holds several measure timestamps included.
C14_OneRowPerSample ==
    Combined => \A sampleID \in C14_SampleIDs : Cardinality(C14_RowsOf(sampleID)) = 1

\* What does hold: each sampleID labels at least one row of the result.
C14_EverySampleAppears ==
    Combined => \A sampleID \in C14_SampleIDs : C14_RowsOf(sampleID) # {}

\* a sample two sites share has a row per site in the result
C14_RowPerSite ==
    /\ Combined
    /\ \E k \in DOMAIN call.before["sample"].rows :
          LET row == call.before["sample"].rows[k]
          IN  /\ row["siteID"].t = "str"
              /\ Contains(row["siteID"].v, ";")
              /\ Cardinality(C14_RowsOf(row["sampleID"])) = Cardinality(SiteIds(row["siteID"].v))
              /\ Cardinality(SiteIds(row["siteID"].v)) > 1

\* a sample with one site has a row per measure timestamp of its window
C14_RowPerTimestamp ==
    /\ Combined
    /\ \E k \in DOMAIN call.before["sample"].rows :
          LET row == call.before["sample"].rows[k]
              rows == C14_RowsOf(row["sampleID"])
          IN  /\ row["siteID"].t = "str"
              /\ ~Contains(row["siteID"].v, ";")
              /\ Cardinality(rows) > 1
              /\ \A a, b \in rows :
                    a # b => out.df.rows[a]["SiteMeasure.dateTime"]
                                 # out.df.rows[b]["SiteMeasure.dateTime"]

----------------------------------------------------------------------------
(* What combine_per_sample leaves of the aggregate. *)

\* the result of calling combine_per_sample again, on the aggregate as the
\* first call left it
C15_Second == combine_per_sample(odm, call.args[1], call.args[2]).result

\* C15: combine_per_sample leaves sample, ww_measure, site_measure, site and
\* cphd with the columns and rows they had, so that a second call on the
\* aggregate succeeds and returns what the first returned.
C15_CallLeavesTablesUnchanged ==
    Combined =>
        /\ \A a \in {"sample", "ww_measure", "site_measure", "site", "cphd"} :
              odm[a] = call.before[a]
        /\ C15_Second = out

\* What does hold: every table but sample is left as it was.
C15_OthersLeftUnchanged ==
    call.op = "combine_per_sample" =>
        \A a \in Attributes \ {"sample"} : odm[a] = call.before[a]

\* the first call has dropped dateTime from the stored sample table, and the
\* second raises on it
C15_SecondCallRaises ==
    /\ Combined
    /\ "dateTime" \in SeqToSet(call.before["sample"].cols)
    /\ "dateTime" \notin SeqToSet(odm["sample"].cols)
    /\ C15_Second.raised
    /\ C15_Second.error = "KeyError"

\* the first call has written one site id into a shared sample's stored row,
\* and the second returns a table with fewer rows
C15_SecondCallDiffers ==
    /\ Combined
    /\ odm["sample"] # call.before["sample"]
    /\ ~C15_Second.raised
    /\ Len(C15_Second.df.rows) < Len(out.df.rows)

----------------------------------------------------------------------------
(* The aggregate decoded from its own encoding. *)

\* json.loads(json.dumps(store, cls=OdmEncoder), object_hook=decode_object)
\* has just returned
Decoded == call.op = "json" /\ ~out.raised

\* a number as written, a whole float and the integer of its value alike
C11_Number(x) == IF IsWhole(x) THEN WholeOf(x).v ELSE x.v

\* the same value, for a text, a number or a timestamp; a missing value is
\* missing on both sides
C11_SameValue(was, is) ==
    CASE IsNull(was)                -> IsNull(is)
      [] was.t = "str"              -> is = was
      [] was.t \in {"float", "int"} -> /\ ~IsNull(is)
                                       /\ is.t \in {"float", "int"}
                                       /\ C11_Number(is) = C11_Number(was)
      [] was.t = "Timestamp"        -> is = was
      [] OTHER                      -> TRUE

\* the same attributes absent, and the same columns and number of rows in
\* every table present
C11_SameShape ==
    \A a \in Attributes :
        /\ out.odm[a] = None <=> odm[a] = None
        /\ odm[a] # None =>
              /\ out.odm[a].cols = odm[a].cols
              /\ Len(out.odm[a].rows) = Len(odm[a].rows)

\* C11: decoding what OdmEncoder writes of an aggregate yields one in which
\* every attribute is absent iff it was, and every table has the same
\* columns, the same rows and the same values in its text, numeric and
\* timestamp columns.
C11_RoundTrip ==
    Decoded =>
        /\ C11_SameShape
        /\ \A a \in Attributes : odm[a] # None =>
              \A k \in DOMAIN odm[a].rows : \A c \in SeqToSet(odm[a].cols) :
                  C11_SameValue(odm[a].rows[k][c], out.odm[a].rows[k][c])

\* a timestamp read back as the text to_json wrote of it
C11_AsIsoText(was, is) ==
    was.t = "Timestamp" /\ ~IsNull(was) /\ is = Str(was.v \o "T00:00:00.000Z")

\* What does hold: the shape is kept, and so is every text, number and
\* timestamp, but for the timestamps of columns whose label read_json does
\* not take for a date, which come back as text.
C11_RoundTripButForDates ==
    Decoded =>
        /\ C11_SameShape
        /\ \A a \in Attributes : odm[a] # None =>
              \A k \in DOMAIN odm[a].rows : \A c \in SeqToSet(odm[a].cols) :
                  \/ C11_SameValue(odm[a].rows[k][c], out.odm[a].rows[k][c])
                  \/ /\ ~IsDateLabel(c, call.args[1])
                     /\ C11_AsIsoText(odm[a].rows[k][c], out.odm[a].rows[k][c])

\* dateTimeStart of a sample has come back as text
C11_TimestampReadAsText ==
    /\ Decoded
    /\ odm["sample"] # None
    /\ \E k \in DOMAIN odm["sample"].rows :
          C11_AsIsoText(odm["sample"].rows[k]["dateTimeStart"],
                        out.odm["sample"].rows[k]["dateTimeStart"])

----------------------------------------------------------------------------
(* The same table merged a second time. *)

Appended == call.op = "append_odm"

\* the attribute after add_to_attr(attribute, T) is called once more
C18_Again(attribute, T) == add_to_attr(odm, attribute, T)[attribute]

\* C18 as stated: add_to_attr(attribute, T) called a second time leaves the
\* attribute as the first call left it, whatever the attribute held and
\* whatever T is; and append_odm(b) applied a second time changes nothing.
C18_MergeIsIdempotent ==
    /\ Merged => add_to_attr(odm, call.attribute, call.new_df) = odm
    /\ Appended => append_odm(odm, call.args[1]) = odm

\* no two rows of T are equal
C18_NoEqualRows(T) == T = None \/ DropDuplicatesRaises(T) \/ drop_duplicates(T) = T

\* what the second call leaves of an attribute that held before at the
\* first call and was handed T both times
C18_Expected(attribute, before, T) ==
    IF odm[attribute] = None \/ before # None THEN odm[attribute]
    ELSE IF ConcatRaises(odm[attribute], T) THEN odm[attribute]
    ELSE drop_duplicates(odm[attribute])

\* C18, amended: the second call leaves the attribute as the first left it
\* with its exact duplicate rows removed, the first of each kept; it leaves
\* it unchanged when the attribute was populated before the first call,
\* when no two rows of T are equal, or when the deduplication raises.  The
\* same holds of every attribute for append_odm applied a second time.
C18_SecondMergeOnlyDedups ==
    /\ Merged =>
          /\ C18_Again(call.attribute, call.new_df)
                = C18_Expected(call.attribute, call.before[call.attribute], call.new_df)
          /\ C18_NoEqualRows(call.new_df) =>
                C18_Again(call.attribute, call.new_df) = odm[call.attribute]
          /\ \A a \in Attributes \ {call.attribute} :
                add_to_attr(odm, call.attribute, call.new_df)[a] = odm[a]
    /\ Appended =>
          \A a \in Attributes :
              /\ append_odm(odm, call.args[1])[a]
                    = C18_Expected(a, call.before[a], call.args[1][a])
              /\ C18_NoEqualRows(call.args[1][a]) =>
                    append_odm(odm, call.args[1])[a] = odm[a]

\* a table holding a row twice was stored as it is by the first call, and
\* the second call removes the copy
C18_Witness ==
    /\ Merged
    /\ call.before[call.attribute] = None
    /\ odm[call.attribute] = call.new_df
    /\ ~C18_NoEqualRows(call.new_df)
    /\ Len(C18_Again(call.attribute, call.new_df).rows) < Len(odm[call.attribute].rows)

\* the same of append_odm: the other aggregate's table holds a row twice
C18_WitnessAppended ==
    /\ Appended
    /\ \E a \in Attributes :
          /\ call.before[a] = None
          /\ odm[a] # None
          /\ append_odm(odm, call.args[1])[a] # odm[a]

====
